---- MODULE Spec2Model ----
(***************************************************************************)
(* Model of stk_util/parallel/ParallelComm.hpp: the CommBuffer typed byte  *)
(* buffer and the parallel_data_exchange_* family of exchange protocols    *)
(* running over a transport with non-blocking receive, blocking send,      *)
(* wait and barrier.                                                       *)
(***************************************************************************)
EXTENDS Integers, Sequences, FiniteSets, TLC

\* ------------------------------------------------------------------------
\* Bounds of the model
NumProcs == 2       \* participants of the process group
MaxItems == 2       \* longest payload one participant sends to another
MaxMsgs == 2        \* non-empty (source, destination) pairs of one exchange

Procs == 0 .. (NumProcs - 1)

\* message tags of the protocol families (ParallelComm.hpp:526, 629)
msg_tag == 10242
msg_tag_nonsym == 10243

VARIABLES
  variant,         \* which exchange function the group is executing
  send_lists,      \* send_lists[p][d]: items participant p sends to d
  recv_lists,      \* recv_lists[p][s]: receive slot of p for source s
  recv_msg_sizes,  \* recv_msg_sizes[p][s]: size round result (sym_unknown_size)
  recv_handles,    \* recv_handles[p][s]: request of the receive p posted for s
  sendOffsets,     \* offset-based variant: sendOffsets[p][0..NumProcs]
  sendData,        \* offset-based variant: flat send array of p
  recvOffsets,     \* offset-based variant: recvOffsets[p][0..NumProcs]
  recvData,        \* offset-based variant: flat receive array of p
  chan,            \* chan[s][d]: messages sent by s to d, not yet matched
  pc,              \* pc[p]: position of participant p in the function
  idx,             \* idx[p]: loop variable (iproc, or i) of participant p
  nbar,            \* nbar[p]: number of MPI_Barrier calls p has entered
  mpi_err,         \* the transport reported an error (message truncated)
  entry_len,       \* sym_unknown_size: length of the declared slots on entry
  comm_procs,      \* pack_unpack: comm_procs[p], the partner list of p
  deterministic,   \* pack_unpack: the completion-order argument
  send_data,       \* pack_unpack: send_data[p][i], packed for partner i
  recv_data,       \* pack_unpack: recv_data[p][i], buffer for partner i
  send_requests,   \* pack_unpack: send_requests[p][i]
  recv_requests,   \* pack_unpack: recv_requests[p][i]
  unpacked,        \* pack_unpack: the unpack_msg calls p has made, in order
  arrival,         \* pack_unpack: indices of p's receives, in completion order
  buf,             \* CommBuffer: m_beg, m_ptr, m_end, the storage, failures
  prog,            \* CommBuffer: the values the caller packs, in call order
  phase,           \* CommBuffer: sizing pass, transfer pass, unpacking
  call,            \* CommBuffer: index in prog of the next call
  sized,           \* CommBuffer: size() at the end of the sizing pass
  out              \* CommBuffer: the values unpacked so far

exchVars == <<variant, send_lists, recv_lists, recv_msg_sizes, recv_handles,
              sendOffsets, sendData, recvOffsets, recvData,
              chan, pc, idx, nbar, mpi_err>>

puVars == <<comm_procs, deterministic, send_data, recv_data, send_requests,
            recv_requests, unpacked, arrival>>

\* what the barrier-based exchange functions never touch
bufVars == <<buf, prog, phase, call, sized, out>>

otherVars == <<entry_len, puVars, bufVars>>

vars == <<exchVars, otherVars>>

\* ------------------------------------------------------------------------
\* Helpers on vectors

\* std::vector<T>::resize(n): keeps the prefix, value-initialises new items
Resize(v, n) ==
  [k \in 1 .. n |-> IF k <= Len(v) THEN v[k] ELSE 0]

\* the transport copies the bytes of a message over the head of a buffer
Overwrite(arr, data) ==
  [k \in 1 .. Len(arr) |-> IF k <= Len(data) THEN data[k] ELSE arr[k]]

\* the same copy into a flat array, starting at C index off
OverwriteAt(arr, off, data) ==
  [k \in 1 .. Len(arr) |->
     IF k > off /\ k <= off + Len(data) THEN data[k - off] ELSE arr[k]]

\* the slice [from, to) of a flat array (C indices)
Slice(arr, from, to) ==
  [k \in 1 .. (to - from) |-> arr[from + k]]

RECURSIVE SumTo(_, _)
\* f[0] + ... + f[n-1]
SumTo(f, n) == IF n = 0 THEN 0 ELSE SumTo(f, n - 1) + f[n - 1]

RECURSIVE ConcatTo(_, _)
\* f[0] \o ... \o f[n-1]
ConcatTo(f, n) == IF n = 0 THEN << >> ELSE ConcatTo(f, n - 1) \o f[n - 1]

\* ------------------------------------------------------------------------
\* Inputs of an exchange call

\* the k-th item participant j sends to participant i
Item(j, i, k) == 100 * (j + 1) + 10 * (i + 1) + k

Payload(j, i, n) == [k \in 1 .. n |-> Item(j, i, k)]

\* N[j][i]: number of items j sends to i
CountMatrices ==
  { N \in [Procs -> [Procs -> 0 .. MaxItems]] :
      Cardinality({ e \in Procs \X Procs : N[e[1]][e[2]] > 0 }) <= MaxMsgs }

NoRequest == [st |-> "null", rnd |-> "none", n |-> 0]

NoLists == [p \in Procs |-> [i \in Procs |-> << >>]]

InitCommon(v, N) ==
  /\ variant = v
  /\ send_lists = [j \in Procs |-> [i \in Procs |-> Payload(j, i, N[j][i])]]
  /\ recv_msg_sizes = [p \in Procs |-> [i \in Procs |-> 0]]
  /\ recv_handles = [p \in Procs |-> [i \in Procs |-> NoRequest]]
  /\ chan = [s \in Procs |-> [d \in Procs |-> << >>]]
  /\ idx = [p \in Procs |-> 0]
  /\ nbar = [p \in Procs |-> 0]
  /\ mpi_err = FALSE

NoBuf ==
  /\ buf = [beg |-> FALSE, ptr |-> 0, end |-> 0, mem |-> << >>,
            ovf |-> "none", oobw |-> FALSE, oobr |-> FALSE, rd |-> FALSE]
  /\ prog = << >>
  /\ phase = "none"
  /\ call = 0
  /\ sized = 0
  /\ out = << >>

NoPU ==
  /\ comm_procs = [p \in Procs |-> << >>]
  /\ deterministic = FALSE
  /\ send_data = [p \in Procs |-> << >>]
  /\ recv_data = [p \in Procs |-> << >>]
  /\ send_requests = [p \in Procs |-> << >>]
  /\ recv_requests = [p \in Procs |-> << >>]
  /\ unpacked = [p \in Procs |-> << >>]
  /\ arrival = [p \in Procs |-> << >>]

NoFlat ==
  /\ sendOffsets = [p \in Procs |-> [i \in 0 .. NumProcs |-> 0]]
  /\ recvOffsets = [p \in Procs |-> [i \in 0 .. NumProcs |-> 0]]
  /\ sendData = [p \in Procs |-> << >>]
  /\ recvData = [p \in Procs |-> << >>]

\* parallel_data_exchange_t: any send-count matrix; the receive slots hold
\* e stale items each on entry
InitT ==
  \E N \in CountMatrices, e \in 0 .. 1 :
    /\ InitCommon("t", N)
    /\ recv_lists = [p \in Procs |-> [i \in Procs |-> [k \in 1 .. e |-> 0]]]
    /\ pc = [p \in Procs |-> "post"]
    /\ entry_len = e
    /\ NoFlat
    /\ NoPU
    /\ NoBuf

\* ------------------------------------------------------------------------
\* Transport (MPI) primitives

Tag(v) == IF v = "nonsym" THEN msg_tag_nonsym ELSE msg_tag

\* MPI_Irecv: post a receive of n items from src; returns at once
Irecv(p, src, rnd, n) ==
  [recv_handles EXCEPT ![p][src] = [st |-> "active", rnd |-> rnd, n |-> n]]

\* one iteration of a for-loop over iproc is finished
LoopNext(p, here, next) ==
  LET last == idx[p] + 1 >= NumProcs IN
  /\ idx' = [idx EXCEPT ![p] = IF last THEN 0 ELSE idx[p] + 1]
  /\ pc' = [pc EXCEPT ![p] = IF last THEN next ELSE here]

\* MPI_Send: the message leaves for dest; the call has not returned yet
SendIssue(p, dest, rnd, data, blk) ==
  /\ chan' = [chan EXCEPT ![p][dest] =
                Append(@, [tag |-> Tag(variant), rnd |-> rnd, data |-> data,
                           req |-> 0])]
  /\ pc' = [pc EXCEPT ![p] = blk]
  /\ UNCHANGED idx

AfterSend(p) == IF pc[p] = "size_sendblk" THEN "size_wait" ELSE "wait"
SendLoop(p) == IF pc[p] = "size_sendblk" THEN "size_send" ELSE "send"

\* MPI_Send returns because the destination's receive matched the message
MPI_Send_matched(p) ==
  /\ ~mpi_err
  /\ pc[p] \in {"sendblk", "size_sendblk"}
  /\ chan[p][idx[p]] = << >>
  /\ LoopNext(p, SendLoop(p), AfterSend(p))
  /\ UNCHANGED <<otherVars, variant, send_lists, recv_lists, recv_msg_sizes, recv_handles,
                 sendOffsets, sendData, recvOffsets, recvData, chan, nbar,
                 mpi_err>>

\* MPI_Send returns because the transport buffered the message (eager send)
MPI_Send_buffered(p) ==
  /\ ~mpi_err
  /\ pc[p] \in {"sendblk", "size_sendblk"}
  /\ chan[p][idx[p]] /= << >>
  /\ LoopNext(p, SendLoop(p), AfterSend(p))
  /\ UNCHANGED <<otherVars, variant, send_lists, recv_lists, recv_msg_sizes, recv_handles,
                 sendOffsets, sendData, recvOffsets, recvData, chan, nbar,
                 mpi_err>>

\* MPI_Barrier is called
MPI_Barrier_enter(p) ==
  /\ ~mpi_err
  /\ pc[p] \in {"barrier", "size_barrier"}
  /\ nbar' = [nbar EXCEPT ![p] = @ + 1]
  /\ pc' = [pc EXCEPT ![p] = IF pc[p] = "barrier" THEN "inbarrier"
                                                ELSE "size_inbarrier"]
  /\ UNCHANGED <<otherVars, variant, send_lists, recv_lists, recv_msg_sizes, recv_handles,
                 sendOffsets, sendData, recvOffsets, recvData, chan, idx,
                 mpi_err>>

\* MPI_Barrier returns: every participant has entered this barrier
MPI_Barrier_leave(p) ==
  /\ ~mpi_err
  /\ pc[p] \in {"inbarrier", "size_inbarrier"}
  /\ \A q \in Procs : nbar[q] >= nbar[p]
  /\ pc' = [pc EXCEPT ![p] = IF pc[p] = "inbarrier" THEN "send"
                                                  ELSE "size_send"]
  /\ UNCHANGED <<otherVars, variant, send_lists, recv_lists, recv_msg_sizes, recv_handles,
                 sendOffsets, sendData, recvOffsets, recvData, chan, idx, nbar,
                 mpi_err>>

\* The transport matches the oldest message from s with the receive d posted
\* for s and copies it into the receive buffer; a message longer than the
\* posted buffer is an error (MPI_ERR_TRUNCATE)
Deliver(s, d) ==
  /\ ~mpi_err
  /\ chan[s][d] /= << >>
  /\ recv_handles[d][s].st = "active"
  /\ Head(chan[s][d]).tag = Tag(variant)
  /\ LET m == Head(chan[s][d])
         r == recv_handles[d][s]
     IN IF Len(m.data) > r.n
        THEN /\ mpi_err' = TRUE
             /\ UNCHANGED <<recv_lists, recv_msg_sizes, recvData, recv_handles,
                            chan>>
        ELSE /\ mpi_err' = FALSE
             /\ chan' = [chan EXCEPT ![s][d] = Tail(@)]
             /\ recv_handles' = [recv_handles EXCEPT ![d][s].st = "done"]
             /\ IF r.rnd = "size"
                THEN /\ recv_msg_sizes' =
                          [recv_msg_sizes EXCEPT ![d][s] =
                             IF Len(m.data) > 0 THEN m.data[1] ELSE @]
                     /\ UNCHANGED <<recv_lists, recvData>>
                ELSE IF variant = "nonsym"
                THEN /\ recvData' = [recvData EXCEPT ![d] =
                          OverwriteAt(@, recvOffsets[d][s], m.data)]
                     /\ UNCHANGED <<recv_lists, recv_msg_sizes>>
                ELSE /\ recv_lists' = [recv_lists EXCEPT ![d][s] =
                          Overwrite(@, m.data)]
                     /\ UNCHANGED <<recvData, recv_msg_sizes>>
  /\ UNCHANGED <<otherVars, variant, send_lists, sendOffsets, sendData, recvOffsets,
                 pc, idx, nbar>>

\* MPI_Wait on the receive posted for src
WaitDone(p, src) ==
  /\ recv_handles[p][src].st = "done"
  /\ recv_handles' = [recv_handles EXCEPT ![p][src].st = "null"]

\* ------------------------------------------------------------------------
\* ComputeReceiveList: entry j of the result on participant p is the number
\* of items j sends to p
ComputeReceiveList(p) ==
  [j \in Procs |-> Len(send_lists[j][p])]

\* ------------------------------------------------------------------------
\* parallel_data_exchange_t

\* receive loop, one iteration; after the last one the function goes to next
T_PostLoop(p, next) ==
  /\ ~mpi_err
  /\ variant = "t"
  /\ pc[p] = "post"
  /\ LET iproc == idx[p]
         numToRecvFrom == ComputeReceiveList(p)
         resized == Resize(recv_lists[p][iproc], numToRecvFrom[iproc])
     IN /\ recv_lists' = [recv_lists EXCEPT ![p][iproc] = resized]
        /\ recv_handles' = IF Len(resized) > 0
                           THEN Irecv(p, iproc, "data", Len(resized))
                           ELSE recv_handles
  /\ LoopNext(p, "post", next)
  /\ UNCHANGED <<otherVars, variant, send_lists, recv_msg_sizes, sendOffsets, sendData,
                 recvOffsets, recvData, chan, nbar, mpi_err>>

\* (variation: the MPI_Barrier call between the two loops is missing)
T_Post_NoBarrier(p) == T_PostLoop(p, "send")

T_Post(p) == T_PostLoop(p, "barrier")

\* send loop, one iteration
T_Send(p) ==
  /\ ~mpi_err
  /\ variant = "t"
  /\ pc[p] = "send"
  /\ LET iproc == idx[p] IN
     IF Len(send_lists[p][iproc]) > 0
     THEN SendIssue(p, iproc, "data", send_lists[p][iproc], "sendblk")
     ELSE LoopNext(p, "send", "wait") /\ UNCHANGED chan
  /\ UNCHANGED <<otherVars, variant, send_lists, recv_lists, recv_msg_sizes, recv_handles,
                 sendOffsets, sendData, recvOffsets, recvData, nbar, mpi_err>>

\* (variation: the wait loop waits on every handle, posted or not)
T_Wait_Unposted(p) ==
  /\ ~mpi_err
  /\ variant = "t"
  /\ pc[p] = "wait"
  /\ WaitDone(p, idx[p])
  /\ LoopNext(p, "wait", "done")
  /\ UNCHANGED <<otherVars, variant, send_lists, recv_lists, recv_msg_sizes,
                 sendOffsets, sendData, recvOffsets, recvData, chan, nbar,
                 mpi_err>>

\* wait loop, one iteration
T_Wait(p) ==
  /\ ~mpi_err
  /\ variant = "t"
  /\ pc[p] = "wait"
  /\ LET iproc == idx[p] IN
     IF Len(recv_lists[p][iproc]) > 0
     THEN WaitDone(p, iproc)
     ELSE UNCHANGED recv_handles
  /\ LoopNext(p, "wait", "done")
  /\ UNCHANGED <<otherVars, variant, send_lists, recv_lists, recv_msg_sizes,
                 sendOffsets, sendData, recvOffsets, recvData, chan, nbar,
                 mpi_err>>

NextT ==
  \/ \E p \in Procs : T_Post(p)
  \/ \E p \in Procs : MPI_Barrier_enter(p)
  \/ \E p \in Procs : MPI_Barrier_leave(p)
  \/ \E p \in Procs : T_Send(p)
  \/ \E p \in Procs : MPI_Send_matched(p)
  \/ \E p \in Procs : MPI_Send_buffered(p)
  \/ \E s \in Procs, d \in Procs : Deliver(s, d)
  \/ \E p \in Procs : T_Wait(p)

SpecT == InitT /\ [][NextT]_vars

AllDone == \A p \in Procs : pc[p] = "done"

\* ------------------------------------------------------------------------
\* parallel_data_exchange_sym_t

\* send and receive lengths agree rank by rank: p sends to i as many items
\* as i sends to p
Symmetric(N) == \A i \in Procs, j \in Procs : N[i][j] = N[j][i]

InitSym ==
  \E N \in CountMatrices, e \in 0 .. 1 :
    /\ Symmetric(N)
    /\ InitCommon("sym", N)
    /\ recv_lists = [p \in Procs |-> [i \in Procs |-> [k \in 1 .. e |-> 0]]]
    /\ pc = [p \in Procs |-> "post"]
    /\ entry_len = e
    /\ NoFlat
    /\ NoPU
    /\ NoBuf

Sym_PostLoop(p, next) ==
  /\ ~mpi_err
  /\ variant = "sym"
  /\ pc[p] = "post"
  /\ LET iproc == idx[p]
         resized == Resize(recv_lists[p][iproc], Len(send_lists[p][iproc]))
     IN /\ recv_lists' = [recv_lists EXCEPT ![p][iproc] = resized]
        /\ recv_handles' = IF Len(resized) > 0
                           THEN Irecv(p, iproc, "data", Len(resized))
                           ELSE recv_handles
  /\ LoopNext(p, "post", next)
  /\ UNCHANGED <<otherVars, variant, send_lists, recv_msg_sizes, sendOffsets, sendData,
                 recvOffsets, recvData, chan, nbar, mpi_err>>

Sym_Post(p) == Sym_PostLoop(p, "barrier")

Sym_Send(p) ==
  /\ ~mpi_err
  /\ variant = "sym"
  /\ pc[p] = "send"
  /\ LET iproc == idx[p] IN
     IF Len(send_lists[p][iproc]) > 0
     THEN SendIssue(p, iproc, "data", send_lists[p][iproc], "sendblk")
     ELSE LoopNext(p, "send", "wait") /\ UNCHANGED chan
  /\ UNCHANGED <<otherVars, variant, send_lists, recv_lists, recv_msg_sizes, recv_handles,
                 sendOffsets, sendData, recvOffsets, recvData, nbar, mpi_err>>

\* (variation: the wait loop passes without waiting on the handle)
Sym_Wait_NoWait(p) ==
  /\ ~mpi_err
  /\ variant = "sym"
  /\ pc[p] = "wait"
  /\ LoopNext(p, "wait", "done")
  /\ UNCHANGED <<otherVars, variant, send_lists, recv_lists, recv_msg_sizes,
                 recv_handles,
                 sendOffsets, sendData, recvOffsets, recvData, chan, nbar,
                 mpi_err>>

Sym_Wait(p) ==
  /\ ~mpi_err
  /\ variant = "sym"
  /\ pc[p] = "wait"
  /\ LET iproc == idx[p] IN
     IF Len(recv_lists[p][iproc]) > 0
     THEN WaitDone(p, iproc)
     ELSE UNCHANGED recv_handles
  /\ LoopNext(p, "wait", "done")
  /\ UNCHANGED <<otherVars, variant, send_lists, recv_lists, recv_msg_sizes,
                 sendOffsets, sendData, recvOffsets, recvData, chan, nbar,
                 mpi_err>>

\* ------------------------------------------------------------------------
\* parallel_data_exchange_nonsym_known_sizes_t

\* the caller's prefix-sum offsets and flat arrays for the count matrix N:
\* recvOffsets of p and sendOffsets of j describe the same slice lengths
InitNonsym ==
  \E N \in CountMatrices :
    /\ InitCommon("nonsym", N)
    /\ recv_lists = NoLists
    /\ pc = [p \in Procs |-> "post"]
    /\ entry_len = 0
    /\ NoPU
    /\ NoBuf
    /\ sendOffsets = [p \in Procs |-> [i \in 0 .. NumProcs |->
                        SumTo([d \in Procs |-> N[p][d]], i)]]
    /\ recvOffsets = [p \in Procs |-> [i \in 0 .. NumProcs |->
                        SumTo([s \in Procs |-> N[s][p]], i)]]
    /\ sendData = [p \in Procs |->
                     ConcatTo([d \in Procs |-> Payload(p, d, N[p][d])],
                              NumProcs)]
    /\ recvData = [p \in Procs |->
                     [k \in 1 .. SumTo([s \in Procs |-> N[s][p]], NumProcs)
                        |-> 0]]

\* (variation: a receive is posted for every rank, also of size 0)
Nonsym_PostLoop_Always(p, next) ==
  /\ ~mpi_err
  /\ variant = "nonsym"
  /\ pc[p] = "post"
  /\ LET iproc == idx[p]
         recvSize == recvOffsets[p][iproc + 1] - recvOffsets[p][iproc]
     IN recv_handles' = Irecv(p, iproc, "data", recvSize)
  /\ LoopNext(p, "post", next)
  /\ UNCHANGED <<otherVars, variant, send_lists, recv_lists, recv_msg_sizes,
                 sendOffsets, sendData, recvOffsets, recvData, chan, nbar,
                 mpi_err>>

Nonsym_PostLoop(p, next) ==
  /\ ~mpi_err
  /\ variant = "nonsym"
  /\ pc[p] = "post"
  /\ LET iproc == idx[p]
         recvSize == recvOffsets[p][iproc + 1] - recvOffsets[p][iproc]
     IN recv_handles' = IF recvSize > 0
                        THEN Irecv(p, iproc, "data", recvSize)
                        ELSE recv_handles
  /\ LoopNext(p, "post", next)
  /\ UNCHANGED <<otherVars, variant, send_lists, recv_lists, recv_msg_sizes, sendOffsets,
                 sendData, recvOffsets, recvData, chan, nbar, mpi_err>>

Nonsym_Post(p) == Nonsym_PostLoop(p, "barrier")

\* (variation: the send buffer starts at sendData[0] for every rank)
Nonsym_Send_WrongOffset(p) ==
  /\ ~mpi_err
  /\ variant = "nonsym"
  /\ pc[p] = "send"
  /\ LET iproc == idx[p]
         sendSize == sendOffsets[p][iproc + 1] - sendOffsets[p][iproc]
     IN IF sendSize > 0
        THEN SendIssue(p, iproc, "data", Slice(sendData[p], 0, sendSize),
                       "sendblk")
        ELSE LoopNext(p, "send", "wait") /\ UNCHANGED chan
  /\ UNCHANGED <<otherVars, variant, send_lists, recv_lists, recv_msg_sizes,
                 recv_handles, sendOffsets, sendData, recvOffsets, recvData,
                 nbar, mpi_err>>

Nonsym_Send(p) ==
  /\ ~mpi_err
  /\ variant = "nonsym"
  /\ pc[p] = "send"
  /\ LET iproc == idx[p]
         sendSize == sendOffsets[p][iproc + 1] - sendOffsets[p][iproc]
     IN IF sendSize > 0
        THEN SendIssue(p, iproc, "data",
                       Slice(sendData[p], sendOffsets[p][iproc],
                             sendOffsets[p][iproc] + sendSize),
                       "sendblk")
        ELSE LoopNext(p, "send", "wait") /\ UNCHANGED chan
  /\ UNCHANGED <<otherVars, variant, send_lists, recv_lists, recv_msg_sizes, recv_handles,
                 sendOffsets, sendData, recvOffsets, recvData, nbar, mpi_err>>

Nonsym_Wait(p) ==
  /\ ~mpi_err
  /\ variant = "nonsym"
  /\ pc[p] = "wait"
  /\ LET iproc == idx[p]
         recvSize == recvOffsets[p][iproc + 1] - recvOffsets[p][iproc]
     IN IF recvSize > 0
        THEN WaitDone(p, iproc)
        ELSE UNCHANGED recv_handles
  /\ LoopNext(p, "wait", "done")
  /\ UNCHANGED <<otherVars, variant, send_lists, recv_lists, recv_msg_sizes,
                 sendOffsets, sendData, recvOffsets, recvData, chan, nbar,
                 mpi_err>>

\* ------------------------------------------------------------------------
\* parallel_data_exchange_sym_unknown_size_t

\* the send and receive lists are matched: the receive slot of i for j is
\* non-empty on entry (dl placeholder items) exactly when j sends to i
InitSymUnk ==
  \E N \in CountMatrices, dl \in 1 .. (MaxItems + 1) :
    /\ InitCommon("symunk", N)
    /\ recv_lists = [i \in Procs |-> [j \in Procs |->
                       IF N[j][i] > 0 THEN [k \in 1 .. dl |-> 0] ELSE << >>]]
    /\ pc = [p \in Procs |-> "size_post"]
    /\ entry_len = dl
    /\ NoFlat
    /\ NoPU
    /\ NoBuf

\* size round, receive loop (the send_msg_sizes loop before it is local)
SymUnk_SizePostLoop(p, next) ==
  /\ ~mpi_err
  /\ variant = "symunk"
  /\ pc[p] = "size_post"
  /\ LET iproc == idx[p] IN
     recv_handles' = IF Len(recv_lists[p][iproc]) > 0
                     THEN Irecv(p, iproc, "size", 1)
                     ELSE recv_handles
  /\ LoopNext(p, "size_post", next)
  /\ UNCHANGED <<otherVars, variant, send_lists, recv_lists, recv_msg_sizes, sendOffsets,
                 sendData, recvOffsets, recvData, chan, nbar, mpi_err>>

SymUnk_SizePost(p) == SymUnk_SizePostLoop(p, "size_barrier")

\* size round, send loop: send_msg_sizes[iproc] = send_lists[iproc].size()
SymUnk_SizeSend(p) ==
  /\ ~mpi_err
  /\ variant = "symunk"
  /\ pc[p] = "size_send"
  /\ LET iproc == idx[p]
         send_msg_sizes == [i \in Procs |-> Len(send_lists[p][i])]
     IN IF Len(send_lists[p][iproc]) > 0
        THEN SendIssue(p, iproc, "size", <<send_msg_sizes[iproc]>>,
                       "size_sendblk")
        ELSE LoopNext(p, "size_send", "size_wait") /\ UNCHANGED chan
  /\ UNCHANGED <<otherVars, variant, send_lists, recv_lists, recv_msg_sizes, recv_handles,
                 sendOffsets, sendData, recvOffsets, recvData, nbar, mpi_err>>

\* (variation: the slot is not resized to the received size)
SymUnk_SizeWait_NoResize(p) ==
  /\ ~mpi_err
  /\ variant = "symunk"
  /\ pc[p] = "size_wait"
  /\ LET iproc == idx[p] IN
     IF Len(recv_lists[p][iproc]) > 0
     THEN WaitDone(p, iproc)
     ELSE UNCHANGED recv_handles
  /\ LoopNext(p, "size_wait", "post")
  /\ UNCHANGED <<otherVars, variant, send_lists, recv_lists, recv_msg_sizes,
                 sendOffsets, sendData, recvOffsets, recvData, chan, nbar,
                 mpi_err>>

\* size round, wait loop: wait, then resize the slot to the received size
SymUnk_SizeWait(p) ==
  /\ ~mpi_err
  /\ variant = "symunk"
  /\ pc[p] = "size_wait"
  /\ LET iproc == idx[p] IN
     IF Len(recv_lists[p][iproc]) > 0
     THEN /\ WaitDone(p, iproc)
          /\ recv_lists' = [recv_lists EXCEPT ![p][iproc] =
                              Resize(@, recv_msg_sizes[p][iproc])]
     ELSE UNCHANGED <<recv_handles, recv_lists>>
  /\ LoopNext(p, "size_wait", "post")
  /\ UNCHANGED <<otherVars, variant, send_lists, recv_msg_sizes,
                 sendOffsets, sendData, recvOffsets, recvData, chan, nbar,
                 mpi_err>>

\* data round, receive loop
SymUnk_PostLoop(p, next) ==
  /\ ~mpi_err
  /\ variant = "symunk"
  /\ pc[p] = "post"
  /\ LET iproc == idx[p] IN
     recv_handles' = IF Len(recv_lists[p][iproc]) > 0
                     THEN Irecv(p, iproc, "data", Len(recv_lists[p][iproc]))
                     ELSE recv_handles
  /\ LoopNext(p, "post", next)
  /\ UNCHANGED <<otherVars, variant, send_lists, recv_lists, recv_msg_sizes, sendOffsets,
                 sendData, recvOffsets, recvData, chan, nbar, mpi_err>>

\* (variation: the MPI_Barrier call of the data round is missing)
SymUnk_Post_NoBarrier(p) == SymUnk_PostLoop(p, "send")

SymUnk_Post(p) == SymUnk_PostLoop(p, "barrier")

\* data round, send loop
SymUnk_Send(p) ==
  /\ ~mpi_err
  /\ variant = "symunk"
  /\ pc[p] = "send"
  /\ LET iproc == idx[p] IN
     IF Len(send_lists[p][iproc]) > 0
     THEN SendIssue(p, iproc, "data", send_lists[p][iproc], "sendblk")
     ELSE LoopNext(p, "send", "wait") /\ UNCHANGED chan
  /\ UNCHANGED <<otherVars, variant, send_lists, recv_lists, recv_msg_sizes, recv_handles,
                 sendOffsets, sendData, recvOffsets, recvData, nbar, mpi_err>>

\* (variation: the data-round wait loop waits on every handle, posted or
\* not)
SymUnk_Wait_Unposted(p) ==
  /\ ~mpi_err
  /\ variant = "symunk"
  /\ pc[p] = "wait"
  /\ WaitDone(p, idx[p])
  /\ LoopNext(p, "wait", "done")
  /\ UNCHANGED <<otherVars, variant, send_lists, recv_lists, recv_msg_sizes,
                 sendOffsets, sendData, recvOffsets, recvData, chan, nbar,
                 mpi_err>>

\* data round, wait loop
SymUnk_Wait(p) ==
  /\ ~mpi_err
  /\ variant = "symunk"
  /\ pc[p] = "wait"
  /\ LET iproc == idx[p] IN
     IF Len(recv_lists[p][iproc]) > 0
     THEN WaitDone(p, iproc)
     ELSE UNCHANGED recv_handles
  /\ LoopNext(p, "wait", "done")
  /\ UNCHANGED <<otherVars, variant, send_lists, recv_lists, recv_msg_sizes,
                 sendOffsets, sendData, recvOffsets, recvData, chan, nbar,
                 mpi_err>>

\* ------------------------------------------------------------------------
\* The four barrier-based exchange functions, one call by the whole group

InitExch == InitT \/ InitSym \/ InitNonsym \/ InitSymUnk

NextExch ==
  \/ \E p \in Procs : T_Post(p)
  \/ \E p \in Procs : T_Send(p)
  \/ \E p \in Procs : T_Wait(p)
  \/ \E p \in Procs : Sym_Post(p)
  \/ \E p \in Procs : Sym_Send(p)
  \/ \E p \in Procs : Sym_Wait(p)
  \/ \E p \in Procs : Nonsym_Post(p)
  \/ \E p \in Procs : Nonsym_Send(p)
  \/ \E p \in Procs : Nonsym_Wait(p)
  \/ \E p \in Procs : SymUnk_SizePost(p)
  \/ \E p \in Procs : SymUnk_SizeSend(p)
  \/ \E p \in Procs : SymUnk_SizeWait(p)
  \/ \E p \in Procs : SymUnk_Post(p)
  \/ \E p \in Procs : SymUnk_Send(p)
  \/ \E p \in Procs : SymUnk_Wait(p)
  \/ \E p \in Procs : MPI_Barrier_enter(p)
  \/ \E p \in Procs : MPI_Barrier_leave(p)
  \/ \E p \in Procs : MPI_Send_matched(p)
  \/ \E p \in Procs : MPI_Send_buffered(p)
  \/ \E s \in Procs, d \in Procs : Deliver(s, d)

SpecExch == InitExch /\ [][NextExch]_vars

\* ------------------------------------------------------------------------
\* Calls that break the callers' obligations

\* number of entries of a per-participant vector
VecSize(v) == Cardinality(DOMAIN v)

\* parallel_data_exchange_sym_t with any send-count matrix, symmetric or
\* not, and with vectors of num_procs + extra entries
InitSymAny ==
  \E N \in CountMatrices, extra \in 0 .. 1 :
    /\ variant = "sym"
    /\ send_lists = [j \in Procs |-> [i \in 0 .. (NumProcs - 1 + extra) |->
                       IF i \in Procs THEN Payload(j, i, N[j][i])
                                      ELSE Payload(j, i, 1)]]
    /\ recv_lists = [p \in Procs |-> [i \in 0 .. (NumProcs - 1 + extra) |->
                       << >>]]
    /\ recv_msg_sizes = [p \in Procs |-> [i \in Procs |-> 0]]
    /\ recv_handles = [p \in Procs |-> [i \in Procs |-> NoRequest]]
    /\ chan = [s \in Procs |-> [d \in Procs |-> << >>]]
    /\ idx = [p \in Procs |-> 0]
    /\ nbar = [p \in Procs |-> 0]
    /\ mpi_err = FALSE
    /\ pc = [p \in Procs |-> "post"]
    /\ entry_len = 0
    /\ NoFlat
    /\ NoPU
    /\ NoBuf

\* parallel_data_exchange_sym_unknown_size_t with any send-count matrix and
\* any set D of declared (receiver, source) pairs, matched or not
InitSymUnkAny ==
  \E N \in CountMatrices, D \in SUBSET (Procs \X Procs) :
    /\ Cardinality(D) <= MaxMsgs
    /\ InitCommon("symunk", N)
    /\ recv_lists = [i \in Procs |-> [j \in Procs |->
                       IF <<i, j>> \in D THEN <<0>> ELSE << >>]]
    /\ pc = [p \in Procs |-> "size_post"]
    /\ entry_len = 1
    /\ NoFlat
    /\ NoPU
    /\ NoBuf

InitMisuse == InitSymAny \/ InitSymUnkAny

NextMisuse ==
  \/ \E p \in Procs : Sym_Post(p)
  \/ \E p \in Procs : Sym_Send(p)
  \/ \E p \in Procs : Sym_Wait(p)
  \/ \E p \in Procs : SymUnk_SizePost(p)
  \/ \E p \in Procs : SymUnk_SizeSend(p)
  \/ \E p \in Procs : SymUnk_SizeWait(p)
  \/ \E p \in Procs : SymUnk_Post(p)
  \/ \E p \in Procs : SymUnk_Send(p)
  \/ \E p \in Procs : SymUnk_Wait(p)
  \/ \E p \in Procs : MPI_Barrier_enter(p)
  \/ \E p \in Procs : MPI_Barrier_leave(p)
  \/ \E p \in Procs : MPI_Send_matched(p)
  \/ \E p \in Procs : MPI_Send_buffered(p)
  \/ \E s \in Procs, d \in Procs : Deliver(s, d)

SpecMisuse == InitMisuse /\ [][NextMisuse]_vars

\* ------------------------------------------------------------------------
\* parallel_data_exchange_sym_pack_unpack

MaxLinks == 4       \* (participant, partner) entries over all partner lists

RECURSIVE Perms(_)
\* the orders in which a caller may list the partner set S
Perms(S) ==
  IF S = {} THEN { << >> }
  ELSE UNION { { <<x>> \o t : t \in Perms(S \ {x}) } : x \in S }

\* mutually symmetric partner relations (a participant may list itself)
PartnerRelations ==
  { R \in SUBSET (Procs \X Procs) :
      /\ \A e \in R : <<e[2], e[1]>> \in R
      /\ Cardinality(R) <= MaxLinks }

\* pack_msg packs L items for every partner; comm_procs lists each partner
\* once, in any order
InitPU ==
  \E R \in PartnerRelations, L \in 0 .. MaxItems, det \in BOOLEAN :
    \E cp \in [Procs -> UNION { Perms(S) : S \in SUBSET Procs }] :
      /\ \A p \in Procs :
           { cp[p][k] : k \in 1 .. Len(cp[p]) } = { q \in Procs : <<p, q>> \in R }
      /\ \A p \in Procs :
           Len(cp[p]) = Cardinality({ q \in Procs : <<p, q>> \in R })
      /\ comm_procs = cp
      /\ deterministic = det
      /\ InitCommon("pu", [j \in Procs |-> [i \in Procs |->
                              IF <<j, i>> \in R THEN L ELSE 0]])
      /\ recv_lists = NoLists
      /\ NoFlat
      /\ entry_len = 0
      /\ NoBuf
      /\ send_data = [p \in Procs |-> [k \in 1 .. Len(cp[p]) |-> << >>]]
      /\ recv_data = [p \in Procs |-> [k \in 1 .. Len(cp[p]) |-> << >>]]
      /\ send_requests = [p \in Procs |-> [k \in 1 .. Len(cp[p]) |-> "null"]]
      /\ recv_requests = [p \in Procs |-> [k \in 1 .. Len(cp[p]) |-> "null"]]
      /\ unpacked = [p \in Procs |-> << >>]
      /\ arrival = [p \in Procs |-> << >>]
      /\ pc = [p \in Procs |-> IF Len(cp[p]) = 0 THEN "pu_waitall"
                                                  ELSE "pu_irecv"]

\* the caller's packer: what p packs for partner iproc
pack_msg(p, iproc) == send_lists[p][iproc]

\* one iteration of a for-loop over i < num_comm_procs is finished
PULoopNext(p, here, next) ==
  LET last == idx[p] + 1 >= Len(comm_procs[p]) IN
  /\ idx' = [idx EXCEPT ![p] = IF last THEN 0 ELSE idx[p] + 1]
  /\ pc' = [pc EXCEPT ![p] = IF last THEN next ELSE here]

\* (variation: the receive for the partner is not posted)
PU_Irecv_NotPosted(p) ==
  /\ ~mpi_err
  /\ variant = "pu"
  /\ pc[p] = "pu_irecv"
  /\ LET i == idx[p] + 1
         iproc == comm_procs[p][i]
         packed == pack_msg(p, iproc)
     IN /\ send_data' = [send_data EXCEPT ![p][i] = packed]
        /\ recv_data' = [recv_data EXCEPT ![p][i] = Resize(@, Len(packed))]
  /\ pc' = [pc EXCEPT ![p] = "pu_isend"]
  /\ UNCHANGED <<bufVars, variant, send_lists, recv_lists, recv_msg_sizes,
                 recv_handles,
                 sendOffsets, sendData, recvOffsets, recvData, chan, idx, nbar,
                 mpi_err, entry_len, comm_procs, deterministic, send_requests,
                 recv_requests, unpacked, arrival>>

\* first loop, first half: pack_msg, resize of recv_data[i], MPI_Irecv
PU_Irecv(p) ==
  /\ ~mpi_err
  /\ variant = "pu"
  /\ pc[p] = "pu_irecv"
  /\ LET i == idx[p] + 1
         iproc == comm_procs[p][i]
         packed == pack_msg(p, iproc)
     IN /\ send_data' = [send_data EXCEPT ![p][i] = packed]
        /\ recv_data' = [recv_data EXCEPT ![p][i] = Resize(@, Len(packed))]
        /\ recv_requests' = [recv_requests EXCEPT ![p][i] = "active"]
  /\ pc' = [pc EXCEPT ![p] = "pu_isend"]
  /\ UNCHANGED <<bufVars, variant, send_lists, recv_lists, recv_msg_sizes,
                 recv_handles,
                 sendOffsets, sendData, recvOffsets, recvData, chan, idx, nbar,
                 mpi_err, entry_len, comm_procs, deterministic, send_requests,
                 unpacked, arrival>>

\* (variation: every message goes to the first partner of the list)
PU_Isend_FirstPartner(p) ==
  /\ ~mpi_err
  /\ variant = "pu"
  /\ pc[p] = "pu_isend"
  /\ LET i == idx[p] + 1
         iproc == comm_procs[p][1]
     IN /\ chan' = [chan EXCEPT ![p][iproc] =
                      Append(@, [tag |-> msg_tag, rnd |-> "data",
                                 data |-> send_data[p][i], req |-> i])]
        /\ send_requests' = [send_requests EXCEPT ![p][i] = "active"]
  /\ PULoopNext(p, "pu_irecv", "pu_wait")
  /\ UNCHANGED <<bufVars, variant, send_lists, recv_lists, recv_msg_sizes,
                 recv_handles,
                 sendOffsets, sendData, recvOffsets, recvData, nbar,
                 mpi_err, entry_len, comm_procs, deterministic, send_data,
                 recv_data, recv_requests, unpacked, arrival>>

\* first loop, second half: MPI_Isend of send_data[i]
PU_Isend(p) ==
  /\ ~mpi_err
  /\ variant = "pu"
  /\ pc[p] = "pu_isend"
  /\ LET i == idx[p] + 1
         iproc == comm_procs[p][i]
     IN /\ chan' = [chan EXCEPT ![p][iproc] =
                      Append(@, [tag |-> msg_tag, rnd |-> "data",
                                 data |-> send_data[p][i], req |-> i])]
        /\ send_requests' = [send_requests EXCEPT ![p][i] = "active"]
  /\ PULoopNext(p, "pu_irecv", "pu_wait")
  /\ UNCHANGED <<bufVars, variant, send_lists, recv_lists, recv_msg_sizes,
                 recv_handles,
                 sendOffsets, sendData, recvOffsets, recvData, nbar,
                 mpi_err, entry_len, comm_procs, deterministic, send_data,
                 recv_data, recv_requests, unpacked, arrival>>

\* the receive requests of d that a message from s can match
ActiveFrom(d, s) ==
  { i \in 1 .. Len(comm_procs[d]) :
      comm_procs[d][i] = s /\ recv_requests[d][i] = "active" }

Min(S) == CHOOSE x \in S : \A y \in S : x <= y

\* The transport matches the oldest message from s with the oldest receive
\* d posted for s, copies it and completes both requests
PU_Deliver(s, d) ==
  /\ ~mpi_err
  /\ variant = "pu"
  /\ chan[s][d] /= << >>
  /\ ActiveFrom(d, s) /= {}
  /\ LET m == Head(chan[s][d])
         i == Min(ActiveFrom(d, s))
     IN IF Len(m.data) > Len(recv_data[d][i])
        THEN /\ mpi_err' = TRUE
             /\ UNCHANGED <<chan, recv_data, recv_requests, send_requests,
                            arrival>>
        ELSE /\ mpi_err' = FALSE
             /\ chan' = [chan EXCEPT ![s][d] = Tail(@)]
             /\ recv_data' = [recv_data EXCEPT ![d][i] = Overwrite(@, m.data)]
             /\ recv_requests' = [recv_requests EXCEPT ![d][i] = "done"]
             /\ arrival' = [arrival EXCEPT ![d] = Append(@, i)]
             /\ send_requests' = [send_requests EXCEPT ![s][m.req] =
                                    IF @ = "active" THEN "done" ELSE @]
  /\ UNCHANGED <<bufVars, variant, send_lists, recv_lists, recv_msg_sizes,
                 recv_handles,
                 sendOffsets, sendData, recvOffsets, recvData, pc, idx, nbar,
                 entry_len, comm_procs, deterministic, send_data, unpacked>>

\* The transport completes a send by buffering its message (eager send)
PU_SendBuffered(p, i) ==
  /\ ~mpi_err
  /\ variant = "pu"
  /\ i \in 1 .. Len(comm_procs[p])
  /\ send_requests[p][i] = "active"
  /\ send_requests' = [send_requests EXCEPT ![p][i] = "done"]
  /\ UNCHANGED <<bufVars, variant, send_lists, recv_lists, recv_msg_sizes,
                 recv_handles,
                 sendOffsets, sendData, recvOffsets, recvData, chan, pc, idx,
                 nbar, mpi_err, entry_len, comm_procs, deterministic,
                 send_data, recv_data, recv_requests, unpacked, arrival>>

\* the caller's unpacker is called with comm_procs[i] and recv_data[i]
unpack_msg(p, i) ==
  Append(unpacked[p], [proc |-> comm_procs[p][i], i |-> i,
                       data |-> recv_data[p][i]])

\* (variation: the deterministic branch takes whichever receive is complete)
PU_Wait_AnyOrder(p) ==
  /\ ~mpi_err
  /\ variant = "pu"
  /\ pc[p] = "pu_wait"
  /\ deterministic
  /\ \E k \in 1 .. Len(comm_procs[p]) :
       /\ recv_requests[p][k] = "done"
       /\ recv_requests' = [recv_requests EXCEPT ![p][k] = "null"]
       /\ unpacked' = [unpacked EXCEPT ![p] = unpack_msg(p, k)]
  /\ PULoopNext(p, "pu_wait", "pu_waitall")
  /\ UNCHANGED <<bufVars, variant, send_lists, recv_lists, recv_msg_sizes,
                 recv_handles,
                 sendOffsets, sendData, recvOffsets, recvData, chan, nbar,
                 mpi_err, entry_len, comm_procs, deterministic, send_data,
                 recv_data, send_requests, arrival>>

\* second loop, deterministic: MPI_Wait on recv_requests[i], then unpack_msg
PU_Wait(p) ==
  /\ ~mpi_err
  /\ variant = "pu"
  /\ pc[p] = "pu_wait"
  /\ deterministic
  /\ LET i == idx[p] + 1 IN
     /\ recv_requests[p][i] = "done"
     /\ recv_requests' = [recv_requests EXCEPT ![p][i] = "null"]
     /\ unpacked' = [unpacked EXCEPT ![p] = unpack_msg(p, i)]
  /\ PULoopNext(p, "pu_wait", "pu_waitall")
  /\ UNCHANGED <<bufVars, variant, send_lists, recv_lists, recv_msg_sizes,
                 recv_handles,
                 sendOffsets, sendData, recvOffsets, recvData, chan, nbar,
                 mpi_err, entry_len, comm_procs, deterministic, send_data,
                 recv_data, send_requests, arrival>>

\* (variation: a request returned by the wait stays completed, as with a
\* test that does not release it)
PU_Waitany_KeepsRequest(p) ==
  /\ ~mpi_err
  /\ variant = "pu"
  /\ pc[p] = "pu_wait"
  /\ ~deterministic
  /\ \E k \in 1 .. Len(comm_procs[p]) :
       /\ recv_requests[p][k] = "done"
       /\ unpacked' = [unpacked EXCEPT ![p] = unpack_msg(p, k)]
  /\ PULoopNext(p, "pu_wait", "pu_waitall")
  /\ UNCHANGED <<bufVars, variant, send_lists, recv_lists, recv_msg_sizes,
                 recv_handles,
                 sendOffsets, sendData, recvOffsets, recvData, chan, nbar,
                 mpi_err, entry_len, comm_procs, deterministic, send_data,
                 recv_data, send_requests, recv_requests, arrival>>

\* second loop, not deterministic: MPI_Waitany returns the index of some
\* completed request and deactivates it, then unpack_msg; with no active
\* request left it returns MPI_UNDEFINED and comm_procs[idx] is out of range
PU_Waitany(p) ==
  /\ ~mpi_err
  /\ variant = "pu"
  /\ pc[p] = "pu_wait"
  /\ ~deterministic
  /\ IF \A k \in 1 .. Len(comm_procs[p]) : recv_requests[p][k] = "null"
     THEN /\ mpi_err' = TRUE
          /\ UNCHANGED <<recv_requests, unpacked, idx, pc>>
     ELSE /\ \E k \in 1 .. Len(comm_procs[p]) :
               /\ recv_requests[p][k] = "done"
               /\ recv_requests' = [recv_requests EXCEPT ![p][k] = "null"]
               /\ unpacked' = [unpacked EXCEPT ![p] = unpack_msg(p, k)]
          /\ PULoopNext(p, "pu_wait", "pu_waitall")
          /\ UNCHANGED mpi_err
  /\ UNCHANGED <<bufVars, variant, send_lists, recv_lists, recv_msg_sizes,
                 recv_handles,
                 sendOffsets, sendData, recvOffsets, recvData, chan, nbar,
                 entry_len, comm_procs, deterministic, send_data,
                 recv_data, send_requests, arrival>>

\* (variation: the function returns without MPI_Waitall)
PU_Waitall_Missing(p) ==
  /\ ~mpi_err
  /\ variant = "pu"
  /\ pc[p] = "pu_waitall"
  /\ pc' = [pc EXCEPT ![p] = "done"]
  /\ UNCHANGED <<bufVars, variant, send_lists, recv_lists, recv_msg_sizes,
                 recv_handles,
                 sendOffsets, sendData, recvOffsets, recvData, chan, idx, nbar,
                 mpi_err, entry_len, comm_procs, deterministic, send_data,
                 recv_data, send_requests, recv_requests, unpacked, arrival>>

\* MPI_Waitall on the send requests, then the function returns
PU_Waitall(p) ==
  /\ ~mpi_err
  /\ variant = "pu"
  /\ pc[p] = "pu_waitall"
  /\ \A i \in 1 .. Len(comm_procs[p]) : send_requests[p][i] = "done"
  /\ send_requests' = [send_requests EXCEPT ![p] =
                         [i \in 1 .. Len(comm_procs[p]) |-> "null"]]
  /\ pc' = [pc EXCEPT ![p] = "done"]
  /\ UNCHANGED <<bufVars, variant, send_lists, recv_lists, recv_msg_sizes,
                 recv_handles,
                 sendOffsets, sendData, recvOffsets, recvData, chan, idx, nbar,
                 mpi_err, entry_len, comm_procs, deterministic, send_data,
                 recv_data, recv_requests, unpacked, arrival>>

NextPU ==
  \/ \E p \in Procs : PU_Irecv(p)
  \/ \E p \in Procs : PU_Isend(p)
  \/ \E s \in Procs, d \in Procs : PU_Deliver(s, d)
  \/ \E p \in Procs, i \in 1 .. NumProcs : PU_SendBuffered(p, i)
  \/ \E p \in Procs : PU_Wait(p)
  \/ \E p \in Procs : PU_Waitany(p)
  \/ \E p \in Procs : PU_Waitall(p)

SpecPU == InitPU /\ [][NextPU]_vars

\* ------------------------------------------------------------------------
\* The five exchange functions, one call of one of them by the whole group

InitFive == InitExch \/ InitPU

NextFive == NextExch \/ NextPU

SpecFive == InitFive /\ [][NextFive]_vars

\* ========================================================================
\* Properties of the exchange functions

\* the payload participant i holds for source j, and what j sent to i
Received(i, j) ==
  IF variant = "nonsym"
  THEN Slice(recvData[i], recvOffsets[i][j], recvOffsets[i][j + 1])
  ELSE recv_lists[i][j]

Sent(j, i) ==
  IF variant = "nonsym"
  THEN Slice(sendData[j], sendOffsets[j][i], sendOffsets[j][i + 1])
  ELSE send_lists[j][i]

TotalReceived ==
  SumTo([i \in Procs |-> SumTo([j \in Procs |-> Len(Received(i, j))],
                               NumProcs)], NumProcs)

TotalSent ==
  SumTo([j \in Procs |-> SumTo([i \in Procs |-> Len(Sent(j, i))],
                               NumProcs)], NumProcs)

\* C1: when every participant has returned from parallel_data_exchange_t or
\* parallel_data_exchange_nonsym_known_sizes_t, participant i holds for
\* source j exactly the sequence j sent to i, and as many items were
\* received over the group as were sent.
C1_ExchangeConservation ==
  (variant \in {"t", "nonsym"} /\ AllDone) =>
     /\ \A i \in Procs, j \in Procs : Received(i, j) = Sent(j, i)
     /\ TotalReceived = TotalSent

C1_Witness ==
  /\ variant = "nonsym"
  /\ AllDone
  /\ \E i \in Procs, j \in Procs :
       /\ i /= j
       /\ recvOffsets[i][j] > 0
       /\ Len(Received(i, j)) = MaxItems
       /\ Received(i, j) = Sent(j, i)

\* positions of a participant relative to the barrier of a round
DataPosted(q) ==
  pc[q] \in {"barrier", "inbarrier", "send", "sendblk", "wait", "done"}

DataSending(p) == pc[p] \in {"send", "sendblk", "wait", "done"}

SizePosted(q) == pc[q] /= "size_post"

SizeSending(p) ==
  pc[p] \notin {"size_post", "size_barrier", "size_inbarrier"}

\* C2: in the four barrier-based functions (and in each round of
\* sym_unknown_size) no participant is at or past its send loop of a round
\* before every participant has posted all its receives of that round, and
\* a message in flight always finds the matching receive of its round
\* posted at its destination.
C2_BarrierSeparates ==
  (variant \in {"t", "sym", "nonsym", "symunk"}) =>
     /\ \A p \in Procs, q \in Procs : DataSending(p) => DataPosted(q)
     /\ (variant = "symunk") =>
          \A p \in Procs, q \in Procs : SizeSending(p) => SizePosted(q)
     /\ \A s \in Procs, d \in Procs :
          chan[s][d] /= << >> =>
             /\ Len(chan[s][d]) = 1
             /\ recv_handles[d][s].st = "active"
             /\ recv_handles[d][s].rnd = Head(chan[s][d]).rnd
             /\ recv_handles[d][s].n >= Len(Head(chan[s][d]).data)
     /\ ~mpi_err

C2_Witness ==
  /\ variant = "symunk"
  /\ \E s \in Procs, d \in Procs :
       /\ s /= d
       /\ chan[s][d] /= << >>
       /\ Head(chan[s][d]).rnd = "data"
       /\ pc[d] = "inbarrier"

\* parallel_data_exchange_t with the scheduling the transport guarantees:
\* every participant that can take a step eventually does, and a message
\* whose receive is posted is eventually matched; a send is never assumed
\* to return before it is matched
StepT(p) ==
  \/ T_Post(p)
  \/ MPI_Barrier_enter(p)
  \/ MPI_Barrier_leave(p)
  \/ T_Send(p)
  \/ MPI_Send_matched(p)
  \/ T_Wait(p)

FairSpecT ==
  /\ SpecT
  /\ \A p \in Procs : WF_vars(StepT(p))
  /\ \A s \in Procs, d \in Procs : WF_vars(Deliver(s, d))

\* p sends to nobody and receives from nobody
Idle(p) ==
  \A i \in Procs : Len(send_lists[p][i]) = 0 /\ Len(send_lists[i][p]) = 0

\* C3: every participant of parallel_data_exchange_t eventually returns,
\* and a participant with nothing to exchange posts no receive, issues no
\* send and has entered the barrier when it returns.
C3_NoDeadlock ==
  /\ <>AllDone
  /\ [](\A p \in Procs : Idle(p) =>
          /\ \A i \in Procs : recv_handles[p][i].st = "null"
          /\ \A i \in Procs : chan[p][i] = << >>
          /\ (pc[p] = "done" => nbar[p] = 1))

C3_Witness ==
  /\ variant = "t"
  /\ AllDone
  /\ \E p \in Procs, q \in Procs :
       /\ Idle(p)
       /\ nbar[p] = 1
       /\ Received(q, q) = Sent(q, q)
       /\ Len(Sent(q, q)) > 0

\* C4: after parallel_data_exchange_sym_unknown_size_t the receive slot of
\* i for a declared source j that sent n > 0 items holds exactly those n
\* items in order, whatever its length on entry; slots of undeclared
\* sources stay as they were (empty).
C4_SymUnknownSize ==
  (variant = "symunk") =>
     \A i \in Procs, j \in Procs :
        /\ (pc[i] = "done" /\ Len(send_lists[j][i]) > 0) =>
              recv_lists[i][j] = send_lists[j][i]
        /\ (Len(send_lists[j][i]) = 0) => recv_lists[i][j] = << >>

C4_Witness ==
  /\ variant = "symunk"
  /\ AllDone
  /\ \E i \in Procs, j \in Procs :
       /\ i /= j
       /\ Len(recv_lists[i][j]) = MaxItems
       /\ entry_len > MaxItems
       /\ recv_lists[i][j] = send_lists[j][i]

\* C5: with deterministic = false every participant calls unpack_msg at
\* most once per entry of comm_procs, always with the payload that partner
\* packed for it, exactly once per entry by the time it returns, and every
\* message sent has been matched when all have returned.
C5_UnpackExactlyOnce ==
  (variant = "pu" /\ ~deterministic) =>
     /\ ~mpi_err
     /\ \A p \in Procs :
          /\ \A a \in 1 .. Len(unpacked[p]), b \in 1 .. Len(unpacked[p]) :
               a /= b => unpacked[p][a].i /= unpacked[p][b].i
          /\ \A a \in 1 .. Len(unpacked[p]) :
               /\ unpacked[p][a].proc = comm_procs[p][unpacked[p][a].i]
               /\ unpacked[p][a].data = send_lists[unpacked[p][a].proc][p]
          /\ (pc[p] = "done") =>
               { unpacked[p][a].i : a \in 1 .. Len(unpacked[p]) }
                  = 1 .. Len(comm_procs[p])
     /\ AllDone => \A s \in Procs, d \in Procs : chan[s][d] = << >>

C5_Witness ==
  /\ variant = "pu"
  /\ ~deterministic
  /\ AllDone
  /\ \E p \in Procs :
       /\ Len(unpacked[p]) = 2
       /\ unpacked[p][1].i = 2
       /\ Len(unpacked[p][1].data) = MaxItems

\* C6: with deterministic = true the k-th unpack_msg call of a participant
\* is for comm_procs[k], whatever the order of arrival, and is made only
\* once the receive from comm_procs[k] has completed and delivered that
\* partner's payload.
C6_DeterministicOrder ==
  (variant = "pu" /\ deterministic) =>
     \A p \in Procs : \A k \in 1 .. Len(unpacked[p]) :
        /\ unpacked[p][k].i = k
        /\ unpacked[p][k].proc = comm_procs[p][k]
        /\ k \in { arrival[p][a] : a \in 1 .. Len(arrival[p]) }
        /\ recv_requests[p][k] = "null"
        /\ unpacked[p][k].data = send_lists[comm_procs[p][k]][p]

C6_Witness ==
  /\ variant = "pu"
  /\ deterministic
  /\ \E p \in Procs :
       /\ arrival[p] = <<2, 1>>
       /\ Len(unpacked[p]) = 2
       /\ Len(unpacked[p][2].data) = MaxItems

\* C7: in any state where a participant has returned from
\* parallel_data_exchange_sym_pack_unpack, none of the sends it started is
\* still outstanding, for both values of deterministic.
C7_SendsCompleted ==
  (variant = "pu") =>
     \A p \in Procs :
        (pc[p] = "done") =>
           \A i \in 1 .. Len(comm_procs[p]) : send_requests[p][i] = "null"

C7_Witness ==
  /\ variant = "pu"
  /\ \E p \in Procs, q \in Procs :
       /\ pc[p] = "done"
       /\ Len(comm_procs[p]) = 2
       /\ pc[q] /= "done"
       /\ chan[p][q] /= << >>

\* ========================================================================
\* CommBuffer

MaxCalls == 2       \* pack calls of one pass
MaxElems == 2       \* elements of a packed array, string, vector or map

\* sizeof(size_t) and sizeof(unsigned) of the build
SizeofSizeT == 8
SizeofUnsigned == 4

\* a count too large for the model: some byte above the third is set
Huge == 256 * 256 * 256

RECURSIVE ToBytes(_, _)
\* object representation of the unsigned integer n in a type of S bytes
ToBytes(n, S) ==
  IF S = 0 THEN << >> ELSE <<n % 256>> \o ToBytes(n \div 256, S - 1)

\* the unsigned integer stored in the bytes bs
FromBytes(bs) ==
  IF \E i \in 1 .. Len(bs) : i > 3 /\ bs[i] /= 0
  THEN Huge
  ELSE (IF Len(bs) >= 1 THEN bs[1] ELSE 0)
       + (IF Len(bs) >= 2 THEN 256 * bs[2] ELSE 0)
       + (IF Len(bs) >= 3 THEN 256 * 256 * bs[3] ELSE 0)

\* (variation: the remainder itself is taken as the pad)
CommBufferAlign_Remainder(N, i) ==
  IF N = 1 THEN 0 ELSE i % N

\* CommBufferAlign<N>::align(i)
CommBufferAlign(N, i) ==
  IF N = 1 THEN 0
  ELSE LET r == i % N IN IF r /= 0 THEN N - r ELSE 0

\* CommBuffer(): all three pointers null
CommBuffer0 ==
  [beg |-> FALSE, ptr |-> 0, end |-> 0, mem |-> << >>,
   ovf |-> "none", oobw |-> FALSE, oobr |-> FALSE, rd |-> FALSE]

\* pack_overflow() / unpack_overflow(): the failure ends the operation
pack_overflow(b) == [b EXCEPT !.ovf = "pack"]
unpack_overflow(b) == [b EXCEPT !.ovf = "unpack"]

\* store bytes bs at offset at of the storage; a byte at or beyond m_end
\* is a write outside the buffer
Store(b, at, bs) ==
  [b EXCEPT
     !.mem = [i \in 1 .. Len(b.mem) |->
                IF i > at /\ i <= at + Len(bs) THEN bs[i - at] ELSE b.mem[i]],
     !.oobw = @ \/ (Len(bs) > 0 /\ at + Len(bs) > b.end)]

\* the n bytes at offset at of the storage
Load(b, at, n) ==
  [i \in 1 .. n |-> IF at + i <= Len(b.mem) THEN b.mem[at + i] ELSE 0]

Zeros(n) == [i \in 1 .. n |-> 0]

RECURSIVE Flatten(_)
Flatten(ss) == IF ss = << >> THEN << >> ELSE Head(ss) \o Flatten(Tail(ss))

\* (variation: the sizing branch advances by Size only, without the pad)
pack_SizingNoPad(b, value) ==
  LET Size == Len(value)
      nalign == CommBufferAlign(Size, b.ptr)
  IN IF b.ovf /= "none" THEN b
     ELSE IF b.beg
     THEN IF b.end < b.ptr + nalign + Size
          THEN pack_overflow(b)
          ELSE [Store(Store(b, b.ptr, Zeros(nalign)), b.ptr + nalign, value)
                  EXCEPT !.ptr = b.ptr + nalign + Size]
     ELSE [b EXCEPT !.ptr = b.ptr + Size]

\* pack(const T & value), value given by its Size bytes
pack(b, value) ==
  LET Size == Len(value)
      nalign == CommBufferAlign(Size, b.ptr)
  IN IF b.ovf /= "none" THEN b
     ELSE IF b.beg
     THEN IF b.end < b.ptr + nalign + Size
          THEN pack_overflow(b)
          ELSE [Store(Store(b, b.ptr, Zeros(nalign)), b.ptr + nalign, value)
                  EXCEPT !.ptr = b.ptr + nalign + Size]
     ELSE [b EXCEPT !.ptr = b.ptr + nalign + Size]

\* (variation: the bound check leaves the pad out)
pack_n_CheckNoPad(b, Size, value) ==
  LET number == Len(value)
      nalign == CommBufferAlign(Size, b.ptr)
  IN IF b.ovf /= "none" THEN b
     ELSE IF b.beg
     THEN IF b.end < b.ptr + number * Size
          THEN pack_overflow(b)
          ELSE [Store(Store(b, b.ptr, Zeros(nalign)), b.ptr + nalign,
                      Flatten(value))
                  EXCEPT !.ptr = b.ptr + nalign + number * Size]
     ELSE [b EXCEPT !.ptr = b.ptr + nalign + number * Size]

\* pack(const T * value, size_t number), elements of Size bytes
pack_n(b, Size, value) ==
  LET number == Len(value)
      nalign == CommBufferAlign(Size, b.ptr)
  IN IF b.ovf /= "none" THEN b
     ELSE IF b.beg
     THEN IF b.end < b.ptr + nalign + number * Size
          THEN pack_overflow(b)
          ELSE [Store(Store(b, b.ptr, Zeros(nalign)), b.ptr + nalign,
                      Flatten(value))
                  EXCEPT !.ptr = b.ptr + nalign + number * Size]
     ELSE [b EXCEPT !.ptr = b.ptr + nalign + number * Size]

\* pack(const std::string & value), value a sequence of characters
pack_string(b, value) ==
  LET length == Len(value) IN
  pack_n(pack(b, ToBytes(length, SizeofSizeT)), 1,
         [i \in 1 .. length |-> <<value[i]>>])

\* std::map iterates in increasing key order
RECURSIVE KeyOrder(_)
KeyOrder(keys) ==
  IF keys = {} THEN << >>
  ELSE LET k == CHOOSE x \in keys :
                  \A y \in keys : FromBytes(x.bytes) <= FromBytes(y.bytes)
       IN <<k>> \o KeyOrder(keys \ {k})

RECURSIVE PackVal(_, _)
RECURSIVE PackEach(_, _)
RECURSIVE PackEntries(_, _, _)

\* pack of a value of any supported type: the overload chosen by its type
PackVal(b, v) ==
  CASE v.k = "int"  -> pack(b, v.bytes)
    [] v.k = "arr"  -> pack_n(b, v.sz, v.el)
    [] v.k = "str"  -> pack_string(b, v.s)
    [] v.k = "pair" -> PackVal(PackVal(b, v.first), v.second)
    [] v.k = "map"  -> PackEntries(pack(b, ToBytes(Cardinality(DOMAIN v.m),
                                                   SizeofSizeT)),
                                   v.m, KeyOrder(DOMAIN v.m))
    [] v.k = "vec"  -> PackEach(pack(b, ToBytes(Len(v.el), SizeofUnsigned)),
                                v.el)

\* the loop of pack(const std::vector<K> &)
PackEach(b, el) ==
  IF el = << >> THEN b ELSE PackEach(PackVal(b, Head(el)), Tail(el))

\* the loop of pack(const std::map<K,V> &)
PackEntries(b, m, keys) ==
  IF keys = << >> THEN b
  ELSE PackEntries(PackVal(PackVal(b, Head(keys)), m[Head(keys)]),
                   m, Tail(keys))

\* (variation: the value is read at the cursor, without the pad)
unpack_NoAlign(b, Size) ==
  LET tmp == b.ptr
      moved == [b EXCEPT !.ptr = tmp + Size,
                         !.rd = @ \/ Size > 0,
                         !.oobr = @ \/ (Size > 0 /\ tmp + Size > b.end)]
  IN IF b.ovf /= "none" THEN [b |-> b, val |-> Zeros(Size)]
     ELSE [b |-> IF b.end < tmp + Size THEN unpack_overflow(moved) ELSE moved,
           val |-> Load(b, tmp, Size)]

\* unpack(T & value) of a type of Size bytes: the value is read before the
\* cursor is checked against m_end
unpack(b, Size) ==
  LET nalign == CommBufferAlign(Size, b.ptr)
      tmp == b.ptr + nalign
      moved == [b EXCEPT !.ptr = tmp + Size,
                         !.rd = @ \/ Size > 0,
                         !.oobr = @ \/ (Size > 0 /\ tmp + Size > b.end)]
  IN IF b.ovf /= "none" THEN [b |-> b, val |-> Zeros(Size)]
     ELSE [b |-> IF b.end < tmp + Size THEN unpack_overflow(moved) ELSE moved,
           val |-> Load(b, tmp, Size)]

\* unpack(T * value, size_t number), elements of Size bytes
unpack_n(b, Size, number) ==
  LET nalign == CommBufferAlign(Size, b.ptr)
      tmp == b.ptr + nalign
      moved == [b EXCEPT !.ptr = tmp + number * Size,
                         !.rd = @ \/ number * Size > 0,
                         !.oobr = @ \/ (number * Size > 0
                                         /\ tmp + number * Size > b.end)]
  IN IF b.ovf /= "none" THEN [b |-> b, val |-> << >>]
     ELSE IF b.end < tmp + number * Size
     THEN [b |-> unpack_overflow(moved), val |-> << >>]
     ELSE [b |-> moved,
           val |-> [i \in 1 .. number |-> Load(b, tmp + (i - 1) * Size, Size)]]

\* unpack(std::string & value)
unpack_string(b) ==
  LET l == unpack(b, SizeofSizeT)
      length == FromBytes(l.val)
      c == unpack_n(l.b, 1, length)
  IN [b |-> c.b, val |-> [i \in 1 .. Len(c.val) |-> c.val[i][1]]]

\* the type of a value: what the caller names when it unpacks
RECURSIVE TypeOf(_)
TypeOf(v) ==
  CASE v.k = "int"  -> [k |-> "int", sz |-> Len(v.bytes)]
    [] v.k = "arr"  -> [k |-> "arr", sz |-> v.sz, n |-> Len(v.el)]
    [] v.k = "str"  -> [k |-> "str"]
    [] v.k = "pair" -> [k |-> "pair", first |-> TypeOf(v.first),
                        second |-> TypeOf(v.second)]
    [] v.k = "map"  -> [k |-> "map", kty |-> v.kty, vty |-> v.vty]
    [] v.k = "vec"  -> [k |-> "vec", ty |-> v.ty]

RECURSIVE UnpackVal(_, _)
RECURSIVE UnpackEach(_, _, _, _)
RECURSIVE UnpackEntries(_, _, _, _, _)

\* unpack of a value of type ty: the overload chosen by the type
UnpackVal(b, ty) ==
  CASE ty.k = "int" ->
         LET r == unpack(b, ty.sz)
         IN [b |-> r.b, val |-> [k |-> "int", bytes |-> r.val]]
    [] ty.k = "arr" ->
         LET r == unpack_n(b, ty.sz, ty.n)
         IN [b |-> r.b, val |-> [k |-> "arr", sz |-> ty.sz, el |-> r.val]]
    [] ty.k = "str" ->
         LET r == unpack_string(b)
         IN [b |-> r.b, val |-> [k |-> "str", s |-> r.val]]
    [] ty.k = "pair" ->
         LET f == UnpackVal(b, ty.first)
             g == UnpackVal(f.b, ty.second)
         IN [b |-> g.b,
             val |-> [k |-> "pair", first |-> f.val, second |-> g.val]]
    [] ty.k = "map" ->
         LET ns == unpack(b, SizeofSizeT)
             r == UnpackEntries(ns.b, ty.kty, ty.vty, FromBytes(ns.val), << >>)
         IN [b |-> r.b,
             val |-> [k |-> "map", kty |-> ty.kty, vty |-> ty.vty,
                      m |-> r.val]]
    [] ty.k = "vec" ->
         LET num_items == unpack(b, SizeofUnsigned)
             r == UnpackEach(num_items.b, ty.ty, FromBytes(num_items.val),
                             << >>)
         IN [b |-> r.b, val |-> [k |-> "vec", ty |-> ty.ty, el |-> r.val]]

\* the loop of unpack(std::vector<K> &): value[i] = val
UnpackEach(b, ty, n, acc) ==
  IF n = 0 \/ b.ovf /= "none" THEN [b |-> b, val |-> acc]
  ELSE LET r == UnpackVal(b, ty)
       IN UnpackEach(r.b, ty, n - 1, Append(acc, r.val))

\* the loop of unpack(std::map<K,V> &): value[key] = val
UnpackEntries(b, kty, vty, n, acc) ==
  IF n = 0 \/ b.ovf /= "none" THEN [b |-> b, val |-> acc]
  ELSE LET key == UnpackVal(b, kty)
           val == UnpackVal(key.b, vty)
       IN UnpackEntries(val.b, kty, vty, n - 1,
                        [x \in (DOMAIN acc) \cup {key.val} |->
                           IF x = key.val THEN val.val ELSE acc[x]])

\* peek(T & value): unpack, then the cursor is put back; a failure of the
\* unpack ends the operation before the cursor is put back
peek(b, Size) ==
  LET oldPtr == b.ptr
      r == unpack(b, Size)
  IN IF r.b.ovf /= "none" THEN r
     ELSE [b |-> [r.b EXCEPT !.ptr = oldPtr], val |-> r.val]

\* peek(T * value, size_t number): the elements are read before the end of
\* the read is checked against m_end; the cursor is not moved
peek_n(b, Size, number) ==
  LET nalign == CommBufferAlign(Size, b.ptr)
      tmp == b.ptr + nalign
      looked == [b EXCEPT !.rd = @ \/ number * Size > 0,
                          !.oobr = @ \/ (number * Size > 0
                                          /\ tmp + number * Size > b.end)]
  IN IF b.ovf /= "none" THEN [b |-> b, val |-> << >>]
     ELSE IF b.end < tmp + number * Size
     THEN [b |-> unpack_overflow(looked), val |-> << >>]
     ELSE [b |-> looked,
           val |-> [i \in 1 .. number |-> Load(b, tmp + (i - 1) * Size, Size)]]

\* peek(std::string & value): the length is peeked, then offset + length
\* characters are peeked from the cursor and the first offset are dropped
peek_string(b) ==
  LET l == peek(b, SizeofSizeT)
      length == FromBytes(l.val)
      offset == SizeofSizeT
      c == peek_n(l.b, 1, offset + length)
  IN [b |-> c.b,
      val |-> IF Len(c.val) = offset + length
              THEN [i \in 1 .. length |-> c.val[offset + i][1]]
              ELSE << >>]

\* (variation: the cursor advances without the alignment pad)
skip_NoPad(b, Size, number) ==
  LET moved == [b EXCEPT !.ptr = b.ptr + Size * number]
  IN IF b.ovf /= "none" THEN b
     ELSE IF b.beg /\ b.end < moved.ptr THEN unpack_overflow(moved)
     ELSE moved

\* skip<T>(number) of a non-pair type of Size bytes
skip(b, Size, number) ==
  LET moved == [b EXCEPT
                  !.ptr = b.ptr + CommBufferAlign(Size, b.ptr) + Size * number]
  IN IF b.ovf /= "none" THEN b
     ELSE IF b.beg /\ b.end < moved.ptr THEN unpack_overflow(moved)
     ELSE moved

\* skip<std::pair<A, B>>(number): skip<A>(number), then skip<B>(number)
skip_pair(b, SizeFirst, SizeSecond, number) ==
  skip(skip(b, SizeFirst, number), SizeSecond, number)

\* reset()
reset(b) == [b EXCEPT !.ptr = 0]

\* size(), capacity(), remaining()
size(b) == b.ptr
capacity(b) == b.end
remaining(b) == b.end - b.ptr

\* set_buffer_ptrs(begin, ptr, end) on freshly allocated storage of n bytes,
\* every byte holding g
set_buffer_ptrs(b, n, g) ==
  [b EXCEPT !.beg = TRUE, !.ptr = 0, !.end = n, !.mem = [i \in 1 .. n |-> g]]

\* ------------------------------------------------------------------------
\* The values a caller packs

IntV(n, S) == [k |-> "int", bytes |-> ToBytes(n, S)]
IntT(S) == [k |-> "int", sz |-> S]

\* fixed-size values of 1, 3, 4 and 8 bytes
ScalarValues == { IntV(300, S) : S \in {1, 3, 4, 8} }

\* arrays for pack(ptr, n), of 0 .. MaxElems elements
ArrayValues ==
  { [k |-> "arr", sz |-> S, el |-> [i \in 1 .. n |-> ToBytes(300 + i, S)]] :
      S \in {1, 4}, n \in 0 .. MaxElems }

StringValues ==
  { [k |-> "str", s |-> [i \in 1 .. n |-> 96 + i]] : n \in 0 .. MaxElems }

PairValues ==
  { [k |-> "pair", first |-> IntV(7, 1), second |-> IntV(300, 4)],
    [k |-> "pair", first |-> IntV(300, 8), second |-> IntV(7, 1)],
    [k |-> "pair", first |-> [k |-> "str", s |-> <<97>>],
                   second |-> IntV(300, 4)] }

\* the i-th element of a vector of element type ty
Elem(ty, i) ==
  CASE ty.k = "int" -> IntV(300 + i, ty.sz)
    [] ty.k = "str" -> [k |-> "str", s |-> [j \in 1 .. (i - 1) |-> 96 + j]]
    [] ty.k = "pair" -> [k |-> "pair", first |-> IntV(i, ty.first.sz),
                         second |-> IntV(300 + i, ty.second.sz)]

VectorValues ==
  { [k |-> "vec", ty |-> ty, el |-> [i \in 1 .. n |-> Elem(ty, i)]] :
      ty \in { IntT(8), [k |-> "str"],
               [k |-> "pair", first |-> IntT(1), second |-> IntT(4)] },
      n \in 0 .. MaxElems }

MapValues ==
  { [k |-> "map", kty |-> IntT(S), vty |-> IntT(1),
     m |-> [key \in { IntV(10 - i, S) : i \in 1 .. n } |-> IntV(7, 1)]] :
      S \in {4}, n \in 0 .. MaxElems }
  \cup
  { [k |-> "map", kty |-> IntT(1), vty |-> [k |-> "str"],
     m |-> [key \in { IntV(i, 1) : i \in 1 .. n } |->
              [k |-> "str", s |-> <<97>>]]] : n \in 1 .. MaxElems }

Values ==
  ScalarValues \cup ArrayValues \cup StringValues \cup PairValues
    \cup VectorValues \cup MapValues

\* uninitialised storage: every byte holds one of these
Garbage == {0, 170}

\* ------------------------------------------------------------------------
\* A caller following the two-pass discipline: sizing pass on an unbacked
\* buffer, allocation, transfer pass, then the receiver unpacks

NoExchange ==
  /\ InitCommon("buf", [j \in Procs |-> [i \in Procs |-> 0]])
  /\ recv_lists = NoLists
  /\ pc = [p \in Procs |-> "done"]
  /\ entry_len = 0
  /\ NoFlat
  /\ NoPU

InitBuf ==
  /\ NoExchange
  /\ buf = CommBuffer0
  /\ \E n \in 1 .. MaxCalls : prog \in [1 .. n -> Values]
  /\ phase = "sizing"
  /\ call = 1
  /\ sized = 0
  /\ out = << >>

\* a pack call of the sizing pass
SizingPack ==
  /\ phase = "sizing"
  /\ call <= Len(prog)
  /\ buf' = PackVal(buf, prog[call])
  /\ call' = call + 1
  /\ UNCHANGED <<exchVars, entry_len, puVars, prog, phase, sized, out>>

\* the owner allocates cap bytes, attaches them and resets the cursor
Attach(cap, g) ==
  /\ sized' = size(buf)
  /\ buf' = reset(set_buffer_ptrs(buf, cap, g))
  /\ phase' = "transfer"
  /\ call' = 1
  /\ UNCHANGED <<exchVars, entry_len, puVars, prog, out>>

\* allocation of exactly size() bytes
Allocate ==
  /\ phase = "sizing"
  /\ call > Len(prog)
  /\ \E g \in Garbage : Attach(size(buf), g)

\* allocation of fewer bytes than the sizing pass asked for
AllocateShort ==
  /\ phase = "sizing"
  /\ call > Len(prog)
  /\ \E cap \in 0 .. (size(buf) - 1), g \in Garbage : Attach(cap, g)

\* a pack call of the transfer pass
TransferPack ==
  /\ phase = "transfer"
  /\ call <= Len(prog)
  /\ buf.ovf = "none"
  /\ buf' = PackVal(buf, prog[call])
  /\ call' = call + 1
  /\ UNCHANGED <<exchVars, entry_len, puVars, prog, phase, sized, out>>

\* the receiver resets the cursor of the filled buffer
ResetToUnpack ==
  /\ phase = "transfer"
  /\ call > Len(prog)
  /\ buf.ovf = "none"
  /\ buf' = reset(buf)
  /\ phase' = "unpack"
  /\ call' = 1
  /\ UNCHANGED <<exchVars, entry_len, puVars, prog, sized, out>>

\* an unpack call of the receiver, of the type that was packed
Unpack ==
  /\ phase = "unpack"
  /\ call <= Len(prog)
  /\ buf.ovf = "none"
  /\ LET r == UnpackVal(buf, TypeOf(prog[call]))
     IN /\ buf' = r.b
        /\ out' = Append(out, r.val)
  /\ call' = call + 1
  /\ UNCHANGED <<exchVars, entry_len, puVars, prog, phase, sized>>

NextBuf ==
  \/ SizingPack
  \/ Allocate
  \/ AllocateShort
  \/ TransferPack
  \/ ResetToUnpack
  \/ Unpack

SpecBuf == InitBuf /\ [][NextBuf]_vars

\* ------------------------------------------------------------------------
\* A caller making any sequence of unpack, peek, skip, pack and reset calls
\* on a buffer that a transfer pass has filled (or on an unbacked buffer);
\* a call that fails is caught by the caller, who may go on calling

\* the calls one caller makes after the buffer was filled
MaxOps == MaxCalls + 1

\* sizeof(T) of the fixed-size types the caller names
Sizes == {1, 4, 8}

\* the values the filling pass packs
CursorValues ==
  { IntV(300, 1), IntV(300, 4),
    [k |-> "str", s |-> [i \in 1 .. MaxElems |-> 96 + i]] }

CursorProgs == UNION { [1 .. n -> CursorValues] : n \in 0 .. MaxCalls }

RECURSIVE PackAll(_, _)
\* the pack calls of one pass
PackAll(b, pr) ==
  IF pr = << >> THEN b ELSE PackAll(PackVal(b, Head(pr)), Tail(pr))

\* sizing pass, then allocation of size() bytes holding g
Attached(pr, g) ==
  LET sizing == PackAll(CommBuffer0, pr)
  IN reset(set_buffer_ptrs(sizing, size(sizing), g))

\* sizing pass, allocation, transfer pass
Filled(pr, g) == PackAll(Attached(pr, g), pr)

\* the state of the buffer when a call starts
Entered(b) == [b EXCEPT !.ovf = "none", !.rd = FALSE]

InitCursor ==
  /\ NoExchange
  /\ \E pr \in CursorProgs :
       /\ prog = pr
       /\ \/ \E g \in Garbage : buf = reset(Filled(pr, g))
          \/ \E g \in Garbage : buf = reset(Attached(pr, g))
          \/ buf = PackAll(CommBuffer0, pr)
       /\ sized = size(PackAll(CommBuffer0, pr))
  /\ phase = "cursor"
  /\ call = 0
  /\ out = [op |-> "none", sz |-> 0, n |-> 0, val |-> << >>, pre |-> buf]

\* the call op made on the buffer, leaving it as b and returning val
Called(op, Size, number, b, val) ==
  /\ phase = "cursor"
  /\ call < MaxOps
  /\ buf' = b
  /\ out' = [op |-> op, sz |-> Size, n |-> number, val |-> val,
             pre |-> Entered(buf)]
  /\ call' = call + 1
  /\ UNCHANGED <<exchVars, entry_len, puVars, prog, phase, sized>>

Cursor_unpack ==
  \E Size \in Sizes :
    /\ buf.beg
    /\ LET r == unpack(Entered(buf), Size)
       IN Called("unpack", Size, 1, r.b, r.val)

Cursor_unpack_n ==
  \E Size \in {1, 4}, number \in 0 .. MaxElems :
    /\ buf.beg
    /\ LET r == unpack_n(Entered(buf), Size, number)
       IN Called("unpack_n", Size, number, r.b, r.val)

Cursor_unpack_string ==
  /\ buf.beg
  /\ LET r == unpack_string(Entered(buf))
     IN Called("unpack_string", 1, 0, r.b, r.val)

Cursor_peek ==
  \E Size \in Sizes :
    /\ buf.beg
    /\ LET r == peek(Entered(buf), Size)
       IN Called("peek", Size, 1, r.b, r.val)

Cursor_peek_n ==
  \E Size \in {1, 4}, number \in 0 .. MaxElems :
    /\ buf.beg
    /\ LET r == peek_n(Entered(buf), Size, number)
       IN Called("peek_n", Size, number, r.b, r.val)

Cursor_peek_string ==
  /\ buf.beg
  /\ LET r == peek_string(Entered(buf))
     IN Called("peek_string", 1, 0, r.b, r.val)

Cursor_skip ==
  \E Size \in Sizes, number \in 0 .. MaxElems :
    Called("skip", Size, number, skip(Entered(buf), Size, number), << >>)

Cursor_skip_pair ==
  \E number \in 0 .. MaxElems :
    Called("skip_pair", 5, number, skip_pair(Entered(buf), 1, 4, number),
           << >>)

Cursor_pack ==
  \E v \in { IntV(7, Size) : Size \in {1, 3, 4, 8} } :
    Called("pack", Len(v.bytes), 1, pack(Entered(buf), v.bytes), << >>)

Cursor_reset ==
  Called("reset", 0, 0, reset(Entered(buf)), << >>)

NextCursor ==
  \/ Cursor_unpack
  \/ Cursor_unpack_n
  \/ Cursor_unpack_string
  \/ Cursor_peek
  \/ Cursor_peek_n
  \/ Cursor_peek_string
  \/ Cursor_skip
  \/ Cursor_skip_pair
  \/ Cursor_pack
  \/ Cursor_reset

SpecCursor == InitCursor /\ [][NextCursor]_vars

\* ========================================================================
\* Properties of CommBuffer

\* the allocation was of exactly the size the sizing pass computed
ExactlySized == buf.beg /\ capacity(buf) = sized

\* C8: after a sizing pass, attaching exactly size() bytes, reset, the
\* same packs again, reset and unpacking, every value unpacked equals the
\* value that was packed, and no call fails.
C8_RoundTrip ==
  (ExactlySized /\ phase = "unpack") =>
     /\ buf.ovf = "none"
     /\ \A j \in 1 .. Len(out) : out[j] = prog[j]
     /\ Len(out) = call - 1

C8_Witness ==
  /\ ExactlySized
  /\ phase = "unpack"
  /\ Len(out) = 2
  /\ out[1].k = "str" /\ Len(out[1].s) = 1
  /\ out[2].k = "vec" /\ out[2].el = << >>
  /\ out = prog

\* C9: the size() reached by the sizing pass is the number of bytes the
\* same packs consume on the backed buffer; on a buffer of exactly that
\* capacity no pack signals overflow and the pass ends with remaining() = 0.
C9_TwoPass ==
  /\ (phase = "transfer" /\ call > Len(prog) /\ buf.ovf = "none") =>
        size(buf) = sized
  /\ (ExactlySized /\ phase = "transfer") =>
        /\ buf.ovf = "none"
        /\ (call > Len(prog) => remaining(buf) = 0)

C9_Witness ==
  /\ ExactlySized
  /\ phase = "transfer"
  /\ call > Len(prog)
  /\ Len(prog) = 2
  /\ prog[1].k = "int" /\ Len(prog[1].bytes) = 1
  /\ prog[2].k = "int" /\ Len(prog[2].bytes) = 8
  /\ size(buf) = 16
  /\ remaining(buf) = 0

\* the call about to be made is pack(value) of a fixed-size type or
\* pack(ptr, n)
PrimitivePack ==
  /\ phase = "transfer"
  /\ call <= Len(prog)
  /\ prog[call].k \in {"int", "arr"}

\* C10: on a backed buffer a pack(value) or pack(ptr, n) that does not fit
\* signals overflow and leaves the storage and the cursor as they were, and
\* no pack ever writes a byte at or beyond m_end.
C10_PackOverflow ==
  /\ [][(PrimitivePack /\ buf'.ovf = "pack") =>
          (buf'.mem = buf.mem /\ buf'.ptr = buf.ptr)]_vars
  /\ [][(PrimitivePack /\ buf.ovf = "none" /\ buf.beg
           /\ LET v == prog[call]
                  bytes == IF v.k = "int" THEN Len(v.bytes)
                                          ELSE v.sz * Len(v.el)
                  pad == CommBufferAlign(IF v.k = "int" THEN Len(v.bytes)
                                                        ELSE v.sz, buf.ptr)
              IN buf.ptr + pad + bytes > buf.end)
          => buf'.ovf = "pack"]_vars
  /\ [](~buf.oobw)

C10_Witness ==
  /\ phase = "transfer"
  /\ buf.ovf = "pack"
  /\ call = 3
  /\ prog[2].k = "int"
  /\ CommBufferAlign(Len(prog[2].bytes), buf.ptr) > 0
  /\ buf.ptr + CommBufferAlign(Len(prog[2].bytes), buf.ptr) <= buf.end
  /\ \E i \in 1 .. Len(buf.mem) : buf.mem[i] = 170

\* ========================================================================
\* Properties of the cursor

\* C11: once the buffer is backed the cursor stays within [begin, end]
\* after every call, failed calls included, and no call reads a byte at or
\* beyond end.
C11_CursorWithinBounds ==
  buf.beg => (0 <= buf.ptr /\ buf.ptr <= buf.end /\ ~buf.oobr)

\* C12: a pack of a fixed-size value of size S, in sizing and in transfer
\* mode, stores the value at an offset that is a multiple of S behind a pad
\* of fewer than S bytes, and in transfer mode every pad byte is zero.
C12_Alignment ==
  (out.op = "pack" /\ buf.ovf = "none") =>
     LET S == out.sz
         start == buf.ptr - S
     IN /\ start % S = 0
        /\ out.pre.ptr <= start
        /\ start - out.pre.ptr < S
        /\ buf.beg =>
              /\ \A i \in (out.pre.ptr + 1) .. start : buf.mem[i] = 0
              /\ Load(buf, start, S) = ToBytes(7, S)

C12_Witness ==
  /\ out.op = "pack"
  /\ out.sz = 4
  /\ buf.beg
  /\ buf.ovf = "none"
  /\ out.pre.ptr = 5
  /\ buf.ptr = 12
  /\ out.pre.mem[6] = 170
  /\ buf.mem[6] = 0

\* begin, cursor, end and the stored bytes of two buffer states agree
SameBuffer(a, b) ==
  /\ a.beg = b.beg
  /\ a.ptr = b.ptr
  /\ a.end = b.end
  /\ a.mem = b.mem

\* C13: peek(T&), peek(T*, n) and peek(std::string&) leave begin, cursor,
\* end and the stored bytes as they were, whether the peek returns a value
\* or fails.
C13_PeekLeavesState ==
  out.op \in {"peek", "peek_n", "peek_string"} => SameBuffer(buf, out.pre)

\* C14: skip<T>(n) of a non-pair type leaves the cursor where
\* unpack(T*, n) from the same position leaves it, reads no byte, and on a
\* backed buffer fails exactly when that position is beyond end.
C14_SkipAsUnpack ==
  out.op = "skip" =>
     /\ buf.ptr = unpack_n(out.pre, out.sz, out.n).b.ptr
     /\ buf.ptr = out.pre.ptr + CommBufferAlign(out.sz, out.pre.ptr)
                     + out.n * out.sz
     /\ ~buf.rd
     /\ buf.oobr = out.pre.oobr
     /\ buf.mem = out.pre.mem
     /\ (buf.ovf = "unpack") <=> (buf.beg /\ buf.ptr > buf.end)

C14_Witness ==
  /\ out.op = "skip"
  /\ out.sz = 4
  /\ out.n = 2
  /\ out.pre.ptr = 1
  /\ buf.beg
  /\ buf.end = 8
  /\ buf.ptr = 12
  /\ buf.ovf = "unpack"

\* ========================================================================
\* Properties of calls that break the callers' obligations

\* participant p has made a transport call
TransportCalled(p) ==
  \/ nbar[p] > 0
  \/ pc[p] \in {"inbarrier", "send", "sendblk", "wait", "done"}
  \/ \E i \in Procs : recv_handles[p][i] /= NoRequest
  \/ \E i \in Procs : chan[p][i] /= << >>

\* C15: parallel_data_exchange_sym_t called with a send or receive vector
\* whose length differs from the group size makes no transport call.
C15_LengthChecked ==
  \A p \in Procs :
    (variant = "sym" /\ (VecSize(send_lists[p]) /= NumProcs
                           \/ VecSize(recv_lists[p]) /= NumProcs))
      => ~TransportCalled(p)

\* participant p posts a receive for source s in this call
ExpectsFrom(p, s) ==
  IF variant = "sym" THEN Len(send_lists[p][s]) > 0
                     ELSE Len(recv_lists[p][s]) > 0

\* p waits on a receive for which s never issues a send
UnmatchedReceive(p, s) == ExpectsFrom(p, s) /\ Len(send_lists[s][p]) = 0

\* p issues a send for which s posts no receive
UnmatchedSend(p, s) == Len(send_lists[p][s]) > 0 /\ ~ExpectsFrom(s, p)

\* C18 as claimed: with an unmatched send or receive in the call, no
\* participant of the group ever returns from it.
C18_WholeGroupDeadlocks ==
  (\E p \in Procs, s \in Procs : UnmatchedSend(p, s) \/ UnmatchedReceive(p, s))
    => \A q \in Procs : pc[q] /= "done"

\* C18: a participant that waits on a posted receive for which the source
\* never issues a send never returns from the call.
C18_UnmatchedReceiverStuck ==
  \A p \in Procs, s \in Procs : UnmatchedReceive(p, s) => pc[p] /= "done"

C18_Witness ==
  /\ variant = "sym"
  /\ UnmatchedReceive(0, 1)
  /\ UnmatchedSend(0, 1)
  /\ pc[0] = "wait"
  /\ idx[0] = 1
  /\ recv_handles[0][1].st = "active"
  /\ chan[0][1] /= << >>
  /\ pc[1] = "done"

\* ========================================================================
\* Properties of parallel_data_exchange_sym_pack_unpack without a barrier

\* participant p has issued a send in this call
PUSendIssued(p) ==
  \/ \E i \in 1 .. Len(comm_procs[p]) : send_requests[p][i] /= "null"
  \/ \E q \in Procs : chan[p][q] /= << >>

\* participant q has posted all its receives
PUAllPosted(q) == pc[q] \in {"pu_wait", "pu_waitall", "done"}

Iterated(p, at) ==
  pc[p] = at /\ <<pc[p], idx[p]>>' /= <<pc[p], idx[p]>>

\* this step posts p's receive for rank i / returns from a wait on it
Posted(p, i) ==
  recv_handles[p][i].st /= "active" /\ recv_handles'[p][i].st = "active"

Waited(p, i) ==
  recv_handles[p][i].st = "done" /\ recv_handles'[p][i].st = "null"

\* the receive size for rank i that p knows when its receive loop gets to i
RecvSizeAtPost(p, i) ==
  CASE variant \in {"t", "sym"} -> Len(recv_lists'[p][i])
    [] variant = "nonsym" -> recvOffsets[p][i + 1] - recvOffsets[p][i]
    [] variant = "symunk" -> Len(recv_lists[p][i])

\* the size the wait loop tests for rank i
RecvSizeAtWait(p, i) ==
  IF variant = "nonsym" THEN recvOffsets[p][i + 1] - recvOffsets[p][i]
                        ELSE Len(recv_lists[p][i])

\* in the four functions with a barrier a receive is posted, and later
\* waited on, exactly for the ranks with receive size > 0
ExchRequestSet(p) ==
  /\ (Iterated(p, "post") \/ Iterated(p, "size_post")) =>
        \A i \in Procs :
          Posted(p, i) <=> (i = idx[p] /\ RecvSizeAtPost(p, i) > 0)
  /\ (Iterated(p, "wait") \/ Iterated(p, "size_wait")) =>
        \A i \in Procs :
          Waited(p, i) <=> (i = idx[p] /\ RecvSizeAtWait(p, i) > 0)
  /\ (variant /= "pu" /\ ~Iterated(p, "post") /\ ~Iterated(p, "size_post")) =>
        \A i \in Procs : ~Posted(p, i)
  /\ (variant /= "pu" /\ ~Iterated(p, "wait") /\ ~Iterated(p, "size_wait")) =>
        \A i \in Procs : ~Waited(p, i)

\* the first loop of the functor variant gets past MPI_Irecv for partner i
PUIrecvStep(p) == pc[p] = "pu_irecv" /\ pc'[p] = "pu_isend"

\* an iteration of the second loop of the functor variant returns request k
PUWaited(p, k) == recv_requests[p][k] = "done" /\ recv_requests'[p][k] = "null"

\* C17 as claimed: in all five variants a receive is posted for a partner
\* exactly when its receive size is greater than 0.
C17_PostedIffNonzero ==
  [][\A p \in Procs :
       /\ ExchRequestSet(p)
       /\ PUIrecvStep(p) =>
            LET i == idx[p] + 1
            IN (recv_requests'[p][i] = "active") <=> (Len(recv_data'[p][i]) > 0)
    ]_vars

\* C17: in the four variants with a barrier a receive is posted, and later
\* waited on, exactly for the partners with receive size > 0; the functor
\* variant posts and waits on a receive for every partner of comm_procs,
\* whatever its size.
C17_RequestSet ==
  [][\A p \in Procs :
       /\ ExchRequestSet(p)
       /\ PUIrecvStep(p) => recv_requests'[p][idx[p] + 1] = "active"
       /\ (variant = "pu" /\ Iterated(p, "pu_wait")) =>
            \E k \in 1 .. Len(comm_procs[p]) :
              /\ PUWaited(p, k)
              /\ \A j \in 1 .. Len(comm_procs[p]) : PUWaited(p, j) => j = k
    ]_vars

\* the functor variant has posted, completed and waited on a receive of
\* size 0
C17_Witness ==
  /\ variant = "pu"
  /\ Len(comm_procs[0]) > 0
  /\ Len(send_data[0][1]) = 0
  /\ Len(recv_data[0][1]) = 0
  /\ Len(unpacked[0]) = 1
  /\ unpacked[0][1].i = 1
  /\ recv_requests[0][1] = "null"
  /\ send_requests[0][1] /= "null"

\* ========================================================================
\* The two rounds of parallel_data_exchange_sym_unknown_size_t

\* participant q has a size-round receive that is not complete
SizeReceivePending(q) ==
  \E i \in Procs :
    recv_handles[q][i].rnd = "size" /\ recv_handles[q][i].st = "active"

\* C19: both rounds use tag 10242 and the same handles; a receive is only
\* ever matched by a message of its own round, and no participant is in or
\* past the data-round send loop while a size-round receive is incomplete.
C19_RoundsDoNotMix ==
  variant = "symunk" =>
    /\ \A s \in Procs, d \in Procs :
         /\ \A k \in 1 .. Len(chan[s][d]) : chan[s][d][k].tag = 10242
         /\ (chan[s][d] /= << >> /\ recv_handles[d][s].st = "active") =>
               Head(chan[s][d]).rnd = recv_handles[d][s].rnd
    /\ (\E p \in Procs : DataSending(p)) =>
         \A q \in Procs : ~SizeReceivePending(q)

C19_Witness ==
  /\ variant = "symunk"
  /\ pc[0] = "sendblk"
  /\ chan[0][1] /= << >>
  /\ Head(chan[0][1]).rnd = "data"
  /\ Head(chan[0][1]).tag = 10242
  /\ recv_handles[1][0] = [st |-> "active", rnd |-> "data", n |-> 2]
  /\ recv_msg_sizes[1][0] = 2
  /\ Len(send_lists[0][1]) = 2

\* ========================================================================
\* Termination of parallel_data_exchange_sym_pack_unpack

\* every participant that can take a step eventually does, and a message
\* whose receive is posted is eventually matched; a send is never assumed
\* to complete before it is matched
StepPU(p) ==
  \/ PU_Irecv(p)
  \/ PU_Isend(p)
  \/ PU_Wait(p)
  \/ PU_Waitany(p)
  \/ PU_Waitall(p)

FairSpecPU ==
  /\ SpecPU
  /\ \A p \in Procs : WF_vars(StepPU(p))
  /\ \A s \in Procs, d \in Procs : WF_vars(PU_Deliver(s, d))

\* C20: with mutually symmetric partner lists and equal packed lengths
\* every participant of the functor variant eventually returns, for both
\* values of deterministic, without any barrier and without a transport
\* error.
C20_TerminatesWithoutBarrier ==
  /\ <>AllDone
  /\ [](\A p \in Procs : nbar[p] = 0)
  /\ [](~mpi_err)

C20_Witness ==
  /\ variant = "pu"
  /\ AllDone
  /\ ~deterministic
  /\ Len(comm_procs[0]) = 2
  /\ Len(comm_procs[1]) = 1
  /\ Len(unpacked[0]) = 2
  /\ Len(unpacked[0][1].data) > 0
  /\ \A p \in Procs : nbar[p] = 0
  /\ \A s \in Procs, d \in Procs : chan[s][d] = << >>

\* ========================================================================
\* Termination of parallel_data_exchange_sym_unknown_size_t

NextSymUnk ==
  \/ \E p \in Procs : SymUnk_SizePost(p)
  \/ \E p \in Procs : SymUnk_SizeSend(p)
  \/ \E p \in Procs : SymUnk_SizeWait(p)
  \/ \E p \in Procs : SymUnk_Post(p)
  \/ \E p \in Procs : SymUnk_Send(p)
  \/ \E p \in Procs : SymUnk_Wait(p)
  \/ \E p \in Procs : MPI_Barrier_enter(p)
  \/ \E p \in Procs : MPI_Barrier_leave(p)
  \/ \E p \in Procs : MPI_Send_matched(p)
  \/ \E p \in Procs : MPI_Send_buffered(p)
  \/ \E s \in Procs, d \in Procs : Deliver(s, d)

\* every participant that can take a step eventually does, and a message
\* whose receive is posted is eventually matched; a send is never assumed
\* to return before it is matched
StepSymUnk(p) ==
  \/ SymUnk_SizePost(p)
  \/ SymUnk_SizeSend(p)
  \/ SymUnk_SizeWait(p)
  \/ SymUnk_Post(p)
  \/ SymUnk_Send(p)
  \/ SymUnk_Wait(p)
  \/ MPI_Barrier_enter(p)
  \/ MPI_Barrier_leave(p)
  \/ MPI_Send_matched(p)

\* the receive vectors enter as placeholders of one element: the size round
\* overwrites their length before any payload is received, so the length
\* the caller chose plays no part in the schedule
InitSymUnkPlaceholder ==
  /\ InitSymUnk
  /\ entry_len = 1

FairSpecSymUnk ==
  /\ InitSymUnkPlaceholder
  /\ [][NextSymUnk]_vars
  /\ \A p \in Procs : WF_vars(StepSymUnk(p))
  /\ \A s \in Procs, d \in Procs : WF_vars(Deliver(s, d))

\* C21: with matched partner declarations every participant eventually
\* returns from both rounds, and when a participant has returned every
\* receive it posted in either round has completed and was waited on, and
\* both barriers were passed.
C21_SymUnkTerminates ==
  /\ <>AllDone
  /\ [](~mpi_err)
  /\ [](\A p \in Procs : pc[p] = "done" =>
          /\ nbar[p] = 2
          /\ \A i \in Procs :
               /\ recv_handles[p][i].st = "null"
               /\ (recv_handles[p][i].rnd = "data") <=>
                     (Len(send_lists[i][p]) > 0))

C21_Witness ==
  /\ variant = "symunk"
  /\ AllDone
  /\ Len(send_lists[0][1]) = 2
  /\ Len(send_lists[1][1]) = 1
  /\ recv_lists[1][0] = send_lists[0][1]
  /\ recv_lists[1][1] = send_lists[1][1]
  /\ recv_handles[1][0] = [st |-> "null", rnd |-> "data", n |-> 2]
  /\ recv_handles[0][1] = NoRequest
  /\ \A p \in Procs : nbar[p] = 2

\* ========================================================================
\* peek of a string and skip of pairs

\* the buffer holds what the transfer pass of prog packed, and the cursor is
\* at the offset where that pass packed its k-th value
AtPacked(b, k) ==
  /\ b.beg
  /\ b.mem = Filled(prog, 0).mem
  /\ b.end = sized
  /\ k \in 1 .. Len(prog)
  /\ b.ptr = size(PackAll(CommBuffer0, SubSeq(prog, 1, k - 1)))

\* C22: at a cursor offset where a string was packed, peek(std::string&)
\* returns the string that unpack(std::string&) returns from that state,
\* also at offsets that are not a multiple of sizeof(size_t).
C22_PeekStringAsUnpack ==
  (/\ out.op = "peek_string"
   /\ \E k \in 1 .. Len(prog) : prog[k].k = "str" /\ AtPacked(out.pre, k))
    => /\ buf.ovf = "none"
       /\ out.val = unpack_string(out.pre).val

RECURSIVE UnpackPairs(_, _, _, _)
\* the buffer after number successive unpack calls of a std::pair<A, B>
\* value: unpack(value.first), unpack(value.second); a failure ends them
UnpackPairs(b, SizeFirst, SizeSecond, number) ==
  IF number = 0 THEN b
  ELSE UnpackPairs(unpack(unpack(b, SizeFirst).b, SizeSecond).b,
                   SizeFirst, SizeSecond, number - 1)

\* C23: from a position of a backed buffer from which n successive unpack
\* calls of a std::pair<A, B> succeed, skip<std::pair<A, B>>(n) succeeds
\* and leaves the cursor where those calls leave it.
C23_SkipPairAsUnpack ==
  (/\ out.op = "skip_pair"
   /\ out.pre.beg
   /\ UnpackPairs(out.pre, 1, 4, out.n).ovf = "none")
    => /\ buf.ovf = "none"
       /\ buf.ptr = UnpackPairs(out.pre, 1, 4, out.n).ptr

====
